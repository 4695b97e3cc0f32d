------------------------------- MODULE Buffers -------------------------------
(***************************************************************************)
(* The circular byte buffer (ds/src/cbuff.c) and the stack                 *)
(* (ds/src/stack.c).                                                       *)
(*                                                                         *)
(* The bit array in one word (ds/src/bit_arr.c) and the class template for *)
(* any number of bits (cpp/inc/bitarray.hpp).  A word is a number below    *)
(* 2^width, a shift to the left loses what leaves the word.                *)
(***************************************************************************)
EXTENDS Integers, Sequences, SequencesExt, FiniteSetsExt, Bitwise

CONSTANTS
  CBuffCapacities,  \* capacities a buffer is created with
  StackCapacity,    \* capacity of the stack
  Bytes             \* byte values, a set of numbers

VARIABLES
  cbuff,       \* front, size, capacity and the bytes
  cbuffModel,  \* the bytes written and not yet read
  cbuffTold,   \* the last call returned what that sequence says
  stack,       \* top and elements
  stackModel   \* the elements pushed and not yet popped

bufferVars == <<cbuff, cbuffModel, cbuffTold, stack, stackModel>>

DEFAULT_SIZE == 1

MinOf(x, y) == IF x > y THEN y ELSE x

-----------------------------------------------------------------------------
(* cbuff.c; the bytes have indices 0 .. capacity - 1.                       *)

CBuffCreate(wanted) ==
  LET capacity == IF DEFAULT_SIZE < wanted THEN wanted ELSE DEFAULT_SIZE
  IN  [front |-> 0, size |-> 0, capacity |-> capacity, buffer |-> [i \in 0 .. capacity - 1 |-> 0]]

CBuffFreeSpace(b) == b.capacity - b.size

\* memcpy of count bytes of src, from its byte at on, to index to.
CopyIn(buffer, to, src, at, count) ==
  [i \in DOMAIN buffer |-> IF i \in to .. to + count - 1 THEN src[at + 1 + i - to] ELSE buffer[i]]

\* Mutant: the second part is written without a new start at index 0.
MutCBuffWrite(b, src) ==
  LET bytes == MinOf(Len(src), CBuffFreeSpace(b))
      index == (b.front + b.size) % b.capacity
      first == MinOf(bytes, b.capacity - index)
  IN  [b EXCEPT !.buffer = CopyIn(@, index, src, 0, first), !.size = @ + bytes]

\* CBuffWrite: what fits of src, up to the end of the buffer and then from
\* its start.
CBuffWrite(b, src) ==
  LET bytes == MinOf(Len(src), CBuffFreeSpace(b))
      index == (b.front + b.size) % b.capacity
      first == MinOf(bytes, b.capacity - index)
  IN  [b EXCEPT !.buffer = CopyIn(CopyIn(@, index, src, 0, first), 0, src, first, bytes - first),
                !.size = @ + bytes]

\* CBuffRead: the bytes it copies out, in two parts, and the buffer after it.
CBuffRead(b, count) ==
  LET bytes == MinOf(count, b.size)
      chunk == MinOf(bytes, b.capacity - b.front)
  IN  [dst |-> [i \in 1 .. bytes |-> IF i <= chunk THEN b.buffer[b.front + i - 1]
                                                   ELSE b.buffer[i - chunk - 1]],
       b |-> [b EXCEPT !.front = (@ + bytes) % b.capacity, !.size = @ - bytes]]

CBuffWriteCall(src) ==
  /\ cbuff' = CBuffWrite(cbuff, src)
  /\ cbuffModel' = cbuffModel \o SubSeq(src, 1, MinOf(Len(src), cbuff.capacity - Len(cbuffModel)))
  /\ cbuffTold' = TRUE
  /\ UNCHANGED <<stack, stackModel>>

CBuffReadCall(count) ==
  LET r == CBuffRead(cbuff, count) IN
  /\ cbuff' = r.b
  /\ cbuffTold' = (r.dst = SubSeq(cbuffModel, 1, MinOf(count, Len(cbuffModel))))
  /\ cbuffModel' = SubSeq(cbuffModel, count + 1, Len(cbuffModel))
  /\ UNCHANGED <<stack, stackModel>>

-----------------------------------------------------------------------------
(* stack.c; its asserts are what a caller must keep to.                     *)

StackCreate == [top |-> 0, elements |-> [i \in 0 .. StackCapacity - 1 |-> 0]]
StackIsEmpty == stack.top = 0
StackPeek == stack.elements[stack.top - 1]

StackPush(element) ==
  /\ stack.top < StackCapacity
  /\ stack' = [stack EXCEPT !.elements[stack.top] = element, !.top = @ + 1]
  /\ stackModel' = Append(stackModel, element)
  /\ UNCHANGED <<cbuff, cbuffModel, cbuffTold>>

StackPop ==
  /\ ~StackIsEmpty
  /\ stack' = [stack EXCEPT !.top = @ - 1]
  /\ stackModel' = Front(stackModel)
  /\ UNCHANGED <<cbuff, cbuffModel, cbuffTold>>

BufferInit ==
  /\ \E c \in CBuffCapacities : cbuff = CBuffCreate(c)
  /\ cbuffModel = << >> /\ cbuffTold = TRUE
  /\ stack = StackCreate /\ stackModel = << >>

\* A program uses either of them: there is nothing between the two.
BufferNext ==
  \/ /\ stackModel = << >> /\ stack = StackCreate
     /\ \/ \E n \in 0 .. cbuff.capacity + 1 : \E src \in [1 .. n -> Bytes] : CBuffWriteCall(src)
        \/ \E count \in 0 .. cbuff.capacity + 1 : CBuffReadCall(count)
  \/ /\ cbuffModel = << >> /\ cbuff = CBuffCreate(cbuff.capacity)
     /\ \/ \E x \in Bytes : StackPush(x)
        \/ StackPop

-----------------------------------------------------------------------------
\* Bytes come out of the buffer in the order in which they went in, across the
\* wrap at its end, none is overwritten before it is read, a read of more than
\* there is gives what there is; the stack gives back the last element first.
BuffersKeepOrder ==
  /\ cbuffTold
  /\ cbuff.size = Len(cbuffModel) /\ cbuff.size <= cbuff.capacity
  /\ CBuffRead(cbuff, cbuff.size).dst = cbuffModel
  /\ stack.top = Len(stackModel)
  /\ stackModel # << >> => StackPeek = Last(stackModel)

-----------------------------------------------------------------------------

CONSTANTS
  CHAR_BIT,     \* bits in a byte
  ByteCount,    \* bytes in a word
  ArraySizes    \* values of the template parameter SIZE

VARIABLES
  word,       \* a bit_arr_t
  wordBits,   \* the set of indices that should be on
  bits,       \* a BitArray: SIZE and its words m_bits
  bitsOn      \* the set of indices that should be on

wordVars == <<word, wordBits>>
bitsVars == <<bits, bitsOn>>

Width == CHAR_BIT * ByteCount
Full == 2 ^ Width - 1
ShiftLeft(w, n) == (w * 2 ^ n) % 2 ^ Width
ShiftRight(w, n) == w \div 2 ^ n
Complement(w) == Full - w

-----------------------------------------------------------------------------
(* bit_arr.c.                                                               *)

BitArrSetAllOn == Full
BitArrSetAllOff == 0

BitArrGetBit(w, i) == IF (w & (2 ^ i)) # 0 THEN 1 ELSE 0
BitArrSetOn(w, i) == w | (2 ^ i)
BitArrSetOff(w, i) == w & Complement(2 ^ i)
BitArrSetBit(w, i, value) == IF value = 1 THEN BitArrSetOn(w, i) ELSE BitArrSetOff(w, i)
BitArrFlipBit(w, i) == w ^^ (2 ^ i)

\* Mutant: the bits that leave the word are lost.
MutBitArrRotateLeft(w, shift) == ShiftLeft(w, shift % Width)

BitArrRotateLeft(w, shift) ==
  LET s == shift % Width IN IF s = 0 THEN w ELSE ShiftLeft(w, s) | ShiftRight(w, Width - s)
BitArrRotateRight(w, shift) ==
  LET s == shift % Width IN IF s = 0 THEN w ELSE ShiftRight(w, s) | ShiftLeft(w, Width - s)

\* w & (w - 1) turns the lowest bit off.
RECURSIVE BitArrCountOn(_)
BitArrCountOn(w) == IF w = 0 THEN 0 ELSE 1 + BitArrCountOn(w & (w - 1))
BitArrCountOff(w) == Width - BitArrCountOn(w)

BitArrMirror(w) ==
  FoldLeft(LAMBDA m, i : IF BitArrGetBit(w, i - 1) = 1 THEN BitArrSetOn(m, Width - i) ELSE m,
           0, [i \in 1 .. Width |-> i])

\* InitLuts: for each byte its mirror image and its number of bits, by taking
\* one bit after the other from its end.
LutEntry(byte) ==
  FoldLeft(LAMBDA r, i : [left |-> r.left \div 2, rev |-> 2 * r.rev + (r.left % 2), ones |-> r.ones + (r.left % 2)],
           [left |-> byte, rev |-> 0, ones |-> 0], [i \in 1 .. CHAR_BIT |-> i])

ByteOf(w, i) == ShiftRight(w, CHAR_BIT * i) % 2 ^ CHAR_BIT

BitArrMirrorLUT(w) ==
  FoldLeft(LAMBDA m, i : m | ShiftLeft(LutEntry(ByteOf(w, i - 1)).rev, CHAR_BIT * (ByteCount - i)),
           0, [i \in 1 .. ByteCount |-> i])

BitArrCountOnLUT(w) == MapThenSumSet(LAMBDA i : LutEntry(ByteOf(w, i)).ones, 0 .. ByteCount - 1)

\* The characters of BitArrToString, the highest bit first.
BitArrToString(w) == [i \in 1 .. Width |-> BitArrGetBit(w, Width - i)]

-----------------------------------------------------------------------------
(* bitarray.hpp, with a word of Width bits.                                 *)

NUM_WORDS(size) == (size + Width - 1) \div Width
LAST_WORD_MASK(size) == IF size % Width = 0 THEN Full ELSE 2 ^ (size % Width) - 1
GetWordIndex(i) == i \div Width
CreateMask(i) == 2 ^ (i % Width)

\* Mutant: the bits of the last word beyond SIZE stay.
MutClearExtraBits(b) == b

ClearExtraBits(b) ==
  LET last == NUM_WORDS(b.size) - 1
  IN  IF last < 0 THEN b ELSE [b EXCEPT !.words[last] = @ & LAST_WORD_MASK(b.size)]

GetBitUnchecked(b, i) == (b.words[GetWordIndex(i)] & CreateMask(i)) # 0

SetBitUnchecked(b, i, val) ==
  [b EXCEPT !.words[GetWordIndex(i)] = IF val THEN @ | CreateMask(i) ELSE @ & Complement(CreateMask(i))]

\* The sums of neighbouring fields of 1, 2, 4 ... bits; the masks are those
\* fields of ones with gaps of the same width.
FieldMask(n) == MapThenSumSet(LAMBDA i : IF (i \div n) % 2 = 0 THEN 2 ^ i ELSE 0, 0 .. Width - 1)
CountBitsInWord(w) ==
  FoldLeft(LAMBDA x, n : (x & FieldMask(n)) + (ShiftRight(x, n) & FieldMask(n)),
           w, SelectSeq(<<1, 2, 4, 8, 16, 32>>, LAMBDA n : n < Width))

Count(b) == MapThenSumSet(LAMBDA i : CountBitsInWord(b.words[i]), DOMAIN b.words)
ToString01(b) == [i \in 1 .. b.size |-> GetBitUnchecked(b, b.size - i)]
NewBitArray(size) == [size |-> size, words |-> [i \in 0 .. NUM_WORDS(size) - 1 |-> 0]]

FlipOne(b, i) == [b EXCEPT !.words[GetWordIndex(i)] = @ ^^ CreateMask(i)]

\* FlipAll, SetAll and the operators |=, &= and ^= go over all words.
FlipAll(b) == ClearExtraBits([b EXCEPT !.words = [i \in DOMAIN @ |-> Complement(@[i])]])
SetAll(b, val) == ClearExtraBits([b EXCEPT !.words = [i \in DOMAIN @ |-> IF val THEN Full ELSE 0]])
OrWith(b, c) == ClearExtraBits([b EXCEPT !.words = [i \in DOMAIN @ |-> @[i] | c.words[i]]])
AndWith(b, c) == ClearExtraBits([b EXCEPT !.words = [i \in DOMAIN @ |-> @[i] & c.words[i]]])
XorWith(b, c) == ClearExtraBits([b EXCEPT !.words = [i \in DOMAIN @ |-> @[i] ^^ c.words[i]]])

-----------------------------------------------------------------------------
WordStart == word = 0 /\ wordBits = {}

WordNext ==
  \/ \E i \in 0 .. Width - 1 :
       \/ word' = BitArrFlipBit(word, i)
          /\ wordBits' = IF i \in wordBits THEN wordBits \ {i} ELSE wordBits \union {i}
       \/ \E v \in {0, 1} : word' = BitArrSetBit(word, i, v)
                            /\ wordBits' = IF v = 1 THEN wordBits \union {i} ELSE wordBits \ {i}
  \/ \E s \in 0 .. Width + 1 :
       \/ word' = BitArrRotateLeft(word, s) /\ wordBits' = {(i + s) % Width : i \in wordBits}
       \/ word' = BitArrRotateRight(word, s) /\ wordBits' = {(i + 2 * Width - s) % Width : i \in wordBits}
  \/ word' = BitArrMirror(word) /\ wordBits' = {Width - 1 - i : i \in wordBits}
  \/ word' = BitArrSetAllOn /\ wordBits' = 0 .. Width - 1
  \/ word' = BitArrSetAllOff /\ wordBits' = {}

BitsStart == bitsOn = {} /\ \E size \in ArraySizes : bits = NewBitArray(size)

\* Set and Flip through an index beyond SIZE throw before they change a bit;
\* a BitProxy has checked its index when it was made.
BitsNext ==
  LET all == 0 .. bits.size - 1
      ones(s) == FoldSet(LAMBDA i, b : SetBitUnchecked(b, i, TRUE), NewBitArray(bits.size), s)
  IN  \/ \E i \in all, val \in BOOLEAN :
           bits' = SetBitUnchecked(bits, i, val)
           /\ bitsOn' = IF val THEN bitsOn \union {i} ELSE bitsOn \ {i}
      \/ \E i \in all : bits' = FlipOne(bits, i)
                       /\ bitsOn' = IF i \in bitsOn THEN bitsOn \ {i} ELSE bitsOn \union {i}
      \/ bits' = FlipAll(bits) /\ bitsOn' = all \ bitsOn
      \/ \E val \in BOOLEAN : bits' = SetAll(bits, val) /\ bitsOn' = IF val THEN all ELSE {}
      \/ \E s \in SUBSET all :
           \/ bits' = OrWith(bits, ones(s)) /\ bitsOn' = bitsOn \union s
           \/ bits' = AndWith(bits, ones(s)) /\ bitsOn' = bitsOn \intersect s
           \/ bits' = XorWith(bits, ones(s)) /\ bitsOn' = (bitsOn \union s) \ (bitsOn \intersect s)

-----------------------------------------------------------------------------
\* After any operations a bit is on exactly if the set of indices says so, no
\* bit beyond the size is ever on, and the fast ways to count and to mirror
\* (tables, fields) give what going over the bits gives.
BitsAreSets ==
  /\ \A i \in 0 .. Width - 1 : BitArrGetBit(word, i) = IF i \in wordBits THEN 1 ELSE 0
  /\ BitArrCountOn(word) = Cardinality(wordBits) /\ BitArrCountOnLUT(word) = Cardinality(wordBits)
  /\ BitArrCountOff(word) = Width - Cardinality(wordBits)
  /\ BitArrMirrorLUT(word) = BitArrMirror(word)
  /\ \A i \in 1 .. Width : BitArrToString(word)[i] = 1 <=> Width - i \in wordBits
  /\ \A i \in 0 .. Width * NUM_WORDS(bits.size) - 1 : GetBitUnchecked(bits, i) <=> i \in bitsOn
  /\ Count(bits) = Cardinality(bitsOn)
  /\ \A i \in 1 .. bits.size : ToString01(bits)[i] <=> bits.size - i \in bitsOn

==============================================================================
