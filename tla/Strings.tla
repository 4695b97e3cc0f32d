------------------------------- MODULE Strings -------------------------------
(***************************************************************************)
(* The string functions (c/ws2/strings.c), the memory functions that work  *)
(* word by word (c/ws9/mem_utils.c) and the recursive versions of strings, *)
(* lists, stacks and numbers (projects/recursion/src/recursion.c).         *)
(*                                                                         *)
(* A C string is a sequence of characters that ends with NUL, a pointer    *)
(* into it an index.  strMem is the memory the functions write to; the     *)
(* string under test begins at its first byte.                             *)
(***************************************************************************)
EXTENDS Integers, Sequences, SequencesExt, FiniteSetsExt

CONSTANTS
  StrChars,     \* characters of strings, upper and lower case letters
  Delimiters,   \* the characters that separate tokens
  StrMaxLen,    \* bound on the length of an argument
  MemSize,      \* bytes of memory
  word_size,    \* sizeof(size_t)
  IntBits,      \* width of an int
  MAX_FIB       \* numbers the table of Fibonacci numbers holds

VARIABLES
  strUse,            \* what is called
  strMem, strText,   \* the memory, and the string it should begin with
  tokNext, tokens,   \* StrTok's static pointer, and the tokens it has returned
  tokDone,           \* it has returned NULL
  memWant,           \* what the memory should be
  g_fib_memo,
  flipped            \* a list as FlipNode leaves it, and its values in order

strVars == <<strUse, strMem, strText, tokNext, tokens, tokDone, memWant, g_fib_memo, flipped>>

NUL == 0
NoPointer == 0
StrTexts == BoundedSeq(StrChars, StrMaxLen)
Z(text) == Append(text, NUL)

\* The first index from p on for which the loop `while' stops.
FirstIndex(p, n, Stop(_)) == Min({k \in p .. n : Stop(k)})

-----------------------------------------------------------------------------
(* strings.c: functions that only read.                                     *)

\* The i-th character; no loop gets beyond a string's NUL.
Ch(s, i) == IF i \in DOMAIN s THEN s[i] ELSE NUL

StrLen(s) == FirstIndex(1, Len(s), LAMBDA k : s[k] = NUL) - 1

StrCmp(s1, s2) ==
  LET k == FirstIndex(1, Len(s1), LAMBDA i : Ch(s1, i) = NUL \/ Ch(s1, i) # Ch(s2, i)) IN s1[k] - s2[k]

StrNCmp(s1, s2, n) ==
  LET k == FirstIndex(1, n + 1, LAMBDA i : i = n + 1 \/ Ch(s1, i) = NUL \/ Ch(s2, i) = NUL \/ Ch(s1, i) # Ch(s2, i))
  IN  IF k = n + 1 THEN 0 ELSE s1[k] - s2[k]

Lower(c) == IF c \in 65 .. 90 THEN c + 32 ELSE c

\* Mutant: the characters after which a string ends are not looked at.
MutStrCaseCmp(s1, s2) ==
  LET k == FirstIndex(1, Len(s1), LAMBDA i : Ch(s1, i) = NUL \/ Ch(s2, i) = NUL \/ Lower(Ch(s1, i)) # Lower(Ch(s2, i)))
  IN  IF NUL \in {s1[k], s2[k]} THEN 0 ELSE Lower(s1[k]) - Lower(s2[k])

StrCaseCmp(s1, s2) ==
  LET k == FirstIndex(1, Len(s1), LAMBDA i : Ch(s1, i) = NUL \/ Ch(s2, i) = NUL \/ Lower(Ch(s1, i)) # Lower(Ch(s2, i)))
  IN  Lower(s1[k]) - Lower(s2[k])

StrChr(s, c) ==
  LET k == FirstIndex(1, Len(s), LAMBDA i : s[i] = NUL \/ s[i] = c) IN IF s[k] = c THEN k ELSE NoPointer

\* One attempt: how far h and n advance together from the h-th character on.
Matches(haystack, h, needle) ==
  needle[FirstIndex(1, Len(needle), LAMBDA k : needle[k] = NUL \/ Ch(haystack, h + k - 1) # needle[k])] = NUL

StrStr(haystack, needle) ==
  LET found == {h \in 1 .. Len(haystack) - 1 : Matches(haystack, h, needle)}
  IN  IF needle[1] = NUL THEN 1 ELSE IF found = {} THEN NoPointer ELSE Min(found)

StrSpn(s, accept) == FirstIndex(1, Len(s), LAMBDA k : s[k] = NUL \/ s[k] \notin accept) - 1

-----------------------------------------------------------------------------
(* strings.c: functions that write.  Write puts bytes at p.                 *)

Write(m, p, bytes) == [a \in DOMAIN m |-> IF a - p + 1 \in DOMAIN bytes THEN bytes[a - p + 1] ELSE m[a]]

EndOf(m) == FirstIndex(1, Len(m), LAMBDA k : m[k] = NUL)

StrCpy(m, s) == Write(m, 1, s)
StrDup(s) == StrCpy([i \in 1 .. StrLen(s) + 1 |-> NUL], s)

\* The second loop pads with NUL; at its end size is 0, so one more is written.
StrNCpy(m, s, size) == Write(m, 1, [i \in 1 .. size + 1 |-> IF i <= size /\ i < Len(s) THEN s[i] ELSE NUL])

StrCat(m, s) == Write(m, EndOf(m), s)
StrNCat(m, s, n) == Write(m, EndOf(m), Append(SubSeq(s, 1, IF n < Len(s) THEN n ELSE Len(s) - 1), NUL))

\* Mutant: the call after a token resumes at the delimiter's successor's successor.
MutResume(q) == q + 2

\* Where the next call resumes after the delimiter at q became NUL.
Resume(q) == q + 1

\* StrTok from the pointer p on: the memory, the static pointer and the result.
StrTok(m, p) ==
  LET start == FirstIndex(p, Len(m), LAMBDA k : m[k] \notin Delimiters)
      stop == FirstIndex(start, Len(m), LAMBDA k : m[k] = NUL \/ m[k] \in Delimiters)
  IN  IF p = NoPointer THEN [mem |-> m, next |-> NoPointer, got |-> NoPointer]
      ELSE IF m[start] = NUL THEN [mem |-> m, next |-> NoPointer, got |-> NoPointer]
      ELSE IF m[stop] = NUL THEN [mem |-> m, next |-> NoPointer, got |-> start]
      ELSE [mem |-> [m EXCEPT ![stop] = NUL], next |-> Resume(stop), got |-> start]

-----------------------------------------------------------------------------
(* mem_utils.c.  A copy is a sequence of chunks: bytes, then words while    *)
(* both ends are aligned, then bytes.  Addresses begin at 0 here, the       *)
(* memory's bytes at 1.                                                     *)

\* Byte by byte to the alignment, word by word if more than one word is left,
\* then the tail.
MemSet(m, s, c, n) ==
  LET head == Min({k \in 0 .. n : k = n \/ (s + k) % word_size = 0})
      left == n - head
      words == IF left > word_size THEN (left \div word_size) * word_size ELSE 0
      tail == IF left > word_size THEN left % word_size ELSE left
      written == s .. s + head + words + tail - 1
  IN  [a \in DOMAIN m |-> IF a - 1 \in written THEN c ELSE m[a]]

CopyChunk(m, dest, src, len) == Write(m, dest + 1, SubSeq(m, src + 1, src + len))

MemCpy(m, dest, src, n) ==
  LET head == Min({k \in 0 .. n : k = n \/ ((dest + k) % word_size = 0 /\ (src + k) % word_size = 0)})
      words == (n - head) \div word_size
      at == [i \in 1 .. n - words * (word_size - 1) |->
               IF i <= head THEN i - 1
               ELSE IF i <= head + words THEN head + (i - head - 1) * word_size
               ELSE head + words * word_size + (i - head - words - 1)]
      size == [i \in DOMAIN at |-> IF i \in head + 1 .. head + words THEN word_size ELSE 1]
  IN  IF n = 0 \/ dest = src THEN m
      ELSE FoldLeft(LAMBDA mm, i : CopyChunk(mm, dest + at[i], src + at[i], size[i]),
                    m, [i \in DOMAIN at |-> i])

\* Mutant: always from the start to the end.
MutMemMove(m, dest, src, n) ==
  FoldLeft(LAMBDA mm, k : CopyChunk(mm, dest + k - 1, src + k - 1, 1), m, [k \in 1 .. n |-> k])

MemMove(m, dest, src, n) ==
  LET forwards == dest < src \/ dest >= src + n
      order == [k \in 1 .. n |-> IF forwards THEN k - 1 ELSE n - k]
  IN  IF dest = src \/ n = 0 THEN m
      ELSE FoldLeft(LAMBDA mm, k : CopyChunk(mm, dest + k, src + k, 1), m, order)

-----------------------------------------------------------------------------
(* recursion.c.                                                             *)

\* An int that leaves its width comes back from the other end.
WrapInt(x) == ((x + 2 ^ (IntBits - 1)) % 2 ^ IntBits) - 2 ^ (IntBits - 1)

Fibonacci(n) ==
  LET loop == FoldLeft(LAMBDA p, i : <<p[2], WrapInt(p[1] + p[2])>>, <<0, 1>>, [i \in 1 .. n - 1 |-> i])
  IN  IF n = 0 THEN 0 ELSE loop[2]

RECURSIVE RecFibonacci(_)
RecFibonacci(n) == IF n <= 1 THEN n ELSE WrapInt(RecFibonacci(n - 1) + RecFibonacci(n - 2))

\* The table after the call; -1 is an entry not computed yet.
RECURSIVE RecFibonacciMemo(_, _)
RecFibonacciMemo(memo, n) ==
  LET after == RecFibonacciMemo(RecFibonacciMemo(memo, n - 1), n - 2)
  IN  IF memo[n] # -1 THEN memo
      ELSE IF n <= 1 THEN [memo EXCEPT ![n] = n]
      ELSE [after EXCEPT ![n] = WrapInt(after[n - 1] + after[n - 2])]

FibMemoInit == [n \in 0 .. MAX_FIB - 1 |-> -1]

\* The list as next pointers; what comes back is the new head.
RECURSIVE FlipNode(_, _)
FlipNode(next, head) ==
  LET rest == FlipNode(next, next[head])
  IN  IF head = 0 THEN [next |-> next, head |-> head]
      ELSE IF next[head] = 0 THEN [next |-> next, head |-> head]
      ELSE [next |-> [rest.next EXCEPT ![rest.next[head]] = head, ![head] = 0], head |-> rest.head]

RECURSIVE StrLenRec(_)
StrLenRec(s) == IF s[1] = NUL THEN 0 ELSE 1 + StrLenRec(Tail(s))

RECURSIVE StrCmpRec(_, _)
StrCmpRec(s1, s2) ==
  IF s1[1] = NUL /\ s2[1] = NUL THEN 0
  ELSE IF s1[1] # s2[1] THEN s1[1] - s2[1]
  ELSE StrCmpRec(Tail(s1), Tail(s2))

RECURSIVE StrCpyRec(_, _, _)
StrCpyRec(m, p, s) ==
  LET first == [m EXCEPT ![p] = s[1]] IN IF s[1] = NUL THEN first ELSE StrCpyRec(first, p + 1, Tail(s))

RECURSIVE StrCatRec(_, _, _)
StrCatRec(m, p, s) == IF m[p] = NUL THEN StrCpyRec(m, p, s) ELSE StrCatRec(m, p + 1, s)

RECURSIVE StrStrRec(_, _, _)
StrStrRec(haystack, p, needle) ==
  IF needle[1] = NUL THEN p
  ELSE IF haystack[p] = NUL THEN NoPointer
  ELSE IF StrNCmp(SubSeq(haystack, p, Len(haystack)), needle, StrLen(needle)) = 0 THEN p
  ELSE StrStrRec(haystack, p + 1, needle)

\* PopInts and PushInt, with the top of the stack at the sequence's end.
RECURSIVE InsertSorted(_, _)
InsertSorted(s, val) ==
  IF s = << >> THEN <<val>>
  ELSE IF val >= Last(s) THEN Append(s, val)
  ELSE Append(InsertSorted(Front(s), val), Last(s))

RECURSIVE SortedStack(_)
SortedStack(s) == IF s = << >> THEN s ELSE InsertSorted(SortedStack(Front(s)), Last(s))

-----------------------------------------------------------------------------
Blank == [a \in 1 .. MemSize |-> NUL]
Pattern == [a \in 1 .. MemSize |-> a]

\* What is called: string functions on one buffer, memory functions, the table
\* of Fibonacci numbers, FlipNode on a list of n nodes.
StrInit ==
  /\ strUse \in {"strings", "memory", "numbers", "list"}
  /\ strMem = (IF strUse = "memory" THEN Pattern ELSE Blank) /\ memWant = strMem /\ strText = << >>
  /\ tokNext = NoPointer /\ tokens = << >> /\ tokDone = FALSE
  /\ g_fib_memo = FibMemoInit
  /\ \E n \in (IF strUse = "list" THEN 0 .. StrMaxLen ELSE {0}) :
       flipped = [next |-> [i \in 1 .. n |-> IF i < n THEN i + 1 ELSE 0], head |-> IF n = 0 THEN 0 ELSE 1,
                  order |-> [i \in 1 .. n |-> i]]

Prefix(s, n) == SubSeq(s, 1, IF n < Len(s) THEN n ELSE Len(s))

\* A function that writes a string; its caller has room for what it writes.
WriteString ==
  /\ strUse = "strings" /\ tokens = << >> /\ ~tokDone
  /\ \E s \in StrTexts, n \in 0 .. StrMaxLen :
       \/ strMem' = StrCpy(strMem, Z(s)) /\ strText' = s
       \/ strMem' = StrNCpy(strMem, Z(s), n) /\ strText' = Prefix(s, n)
       \/ /\ Len(strText) + Len(s) < MemSize
          /\ \/ strMem' = StrCat(strMem, Z(s)) /\ strText' = strText \o s
             \/ strMem' = StrCatRec(strMem, 1, Z(s)) /\ strText' = strText \o s
             \/ strMem' = StrNCat(strMem, Z(s), n) /\ strText' = strText \o Prefix(s, n)
  /\ UNCHANGED <<strUse, tokNext, tokens, tokDone, memWant, g_fib_memo, flipped>>

\* StrTok(str, delimiters), then StrTok(NULL, delimiters) until it returns NULL.
Tokenise ==
  /\ strUse = "strings" /\ ~tokDone
  /\ LET r == StrTok(strMem, IF tokens = << >> THEN 1 ELSE tokNext)
     IN  /\ strMem' = r.mem /\ tokNext' = r.next
         /\ tokens' = IF r.got = NoPointer THEN tokens ELSE Append(tokens, r.got)
         /\ tokDone' = (r.got = NoPointer)
  /\ UNCHANGED <<strUse, strText, memWant, g_fib_memo, flipped>>

\* The blocks of MemCpy do not overlap unless they are the same.
ChangeMemory ==
  /\ strUse = "memory" /\ strMem = Pattern
  /\ \E dest, src, n \in 0 .. MemSize :
       /\ dest + n <= MemSize /\ src + n <= MemSize
       /\ \/ /\ strMem' = MemSet(strMem, dest, NUL, n)
             /\ memWant' = [a \in 1 .. MemSize |-> IF a \in dest + 1 .. dest + n THEN NUL ELSE strMem[a]]
          \/ /\ strMem' = MemMove(strMem, dest, src, n)
             /\ memWant' = [a \in 1 .. MemSize |-> IF a \in dest + 1 .. dest + n THEN strMem[a - dest + src] ELSE strMem[a]]
          \/ /\ dest + n <= src \/ src + n <= dest \/ src = dest
             /\ strMem' = MemCpy(strMem, dest, src, n)
             /\ memWant' = [a \in 1 .. MemSize |-> IF a \in dest + 1 .. dest + n THEN strMem[a - dest + src] ELSE strMem[a]]
  /\ UNCHANGED <<strUse, strText, tokNext, tokens, tokDone, g_fib_memo, flipped>>

Remember ==
  /\ strUse = "numbers"
  /\ \E n \in 0 .. MAX_FIB - 1 : g_fib_memo' = RecFibonacciMemo(g_fib_memo, n)
  /\ UNCHANGED <<strUse, strMem, strText, tokNext, tokens, tokDone, memWant, flipped>>

Flip ==
  /\ strUse = "list"
  /\ LET f == FlipNode(flipped.next, flipped.head)
     IN  flipped' = [next |-> f.next, head |-> f.head, order |-> Reverse(flipped.order)]
  /\ UNCHANGED <<strUse, strMem, strText, tokNext, tokens, tokDone, memWant, g_fib_memo>>

StrNext == WriteString \/ Tokenise \/ ChangeMemory \/ Remember \/ Flip

-----------------------------------------------------------------------------
(* Properties.                                                              *)

\* The string from an index on, up to its NUL.
StringAt(m, p) == SubSeq(m, p, FirstIndex(p, Len(m), LAMBDA k : m[k] = NUL) - 1)

\* The beginnings of the maximal runs of characters that are no delimiters.
RunStarts(s) == {i \in DOMAIN s : s[i] \notin Delimiters /\ (i = 1 \/ s[i - 1] \in Delimiters)}
RunEnd(s, i) == Max({k \in i .. Len(s) : \A j \in i .. k : s[j] \notin Delimiters})

Sign(x) == IF x < 0 THEN -1 ELSE IF x > 0 THEN 1 ELSE 0
LowerAll(s) == [i \in DOMAIN s |-> Lower(s[i])]

\* After any calls the memory begins with the string that copying and appending
\* should give; StrTok returns each run between delimiters once, in order, ended
\* by NUL; the recursive functions, the loops and the definitions of length,
\* order and first occurrence say the same; blocks are copied as if read whole
\* before being written, whatever their alignment; a Fibonacci number once
\* remembered is the one the loop computes; a flipped list is the list reversed.
StringsMean ==
  /\ strUse = "strings" /\ tokens = << >> =>
       /\ StringAt(strMem, 1) = strText
       /\ \A s \in StrTexts :
            LET a == Z(strText) b == Z(s) IN
            /\ StrLen(a) = Len(strText) /\ StrLenRec(a) = Len(strText) /\ StrDup(a) = a
            /\ StrCmp(a, b) = StrCmpRec(a, b) /\ Sign(StrCmp(a, b)) = -Sign(StrCmp(b, a))
            /\ (StrCmp(a, b) = 0) = (strText = s)
            /\ (StrCaseCmp(a, b) = 0) = (LowerAll(strText) = LowerAll(s))
            /\ \A n \in 0 .. StrMaxLen : (StrNCmp(a, b, n) = 0) = (Prefix(strText, n) = Prefix(s, n))
            /\ StrStr(a, b) = StrStrRec(a, 1, b)
            /\ (StrStr(a, b) # NoPointer) = \E i \in 1 .. Len(strText) - Len(s) + 1 : SubSeq(strText, i, i + Len(s) - 1) = s
            /\ SortedStack(strText) = SortSeq(strText, LAMBDA x, y : x < y)
            /\ StrSpn(a, ToSet(s)) = Max({n \in 0 .. Len(strText) : ToSet(Prefix(strText, n)) \subseteq ToSet(s)})
       /\ \A c \in StrChars : (StrChr(Z(strText), c) # NoPointer) = (c \in ToSet(strText))
  /\ strUse = "strings" =>
       LET starts == SetToSortSeq(RunStarts(strText), LAMBDA x, y : x < y)
       IN  /\ IsPrefix(tokens, starts)
           /\ tokDone => tokens = starts
           /\ \A i \in ToSet(tokens) : StringAt(strMem, i) = SubSeq(strText, i, RunEnd(strText, i))
  /\ strMem = memWant \/ strUse # "memory"
  /\ \A n \in DOMAIN g_fib_memo : g_fib_memo[n] # -1 => g_fib_memo[n] = Fibonacci(n) /\ g_fib_memo[n] = RecFibonacci(n)
  /\ \A i \in DOMAIN flipped.order :
       flipped.next[flipped.order[i]] = IF i < Len(flipped.order) THEN flipped.order[i + 1] ELSE 0
  /\ flipped.order # << >> => flipped.head = Head(flipped.order)

=============================================================================
