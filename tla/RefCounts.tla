------------------------------ MODULE RefCounts ------------------------------
(***************************************************************************)
(* Reference counts: SharedPtr (cpp/inc/sharedptr.hpp) and the             *)
(* copy-on-write RCString (cpp/src/rc_string.cpp).  A memory m gives every *)
(* handle the object it points to and every object its count and contents; *)
(* an object whose count is 0 does not exist, and m.bad remembers that one *)
(* was used all the same.  A pointer is given to one SharedPtr only, and   *)
(* no object holds a SharedPtr.                                            *)
(***************************************************************************)
EXTENDS Integers, FiniteSets

CONSTANTS
  Handles,      \* variables of the program
  RefObjects,   \* addresses new can return
  Texts         \* contents of strings, positive numbers

VARIABLES
  sharedMem,    \* of the SharedPtrs
  rcMem,        \* of the RCStrings
  rcText        \* what each string should say

refVars == <<sharedMem, rcMem, rcText>>

\* A handle that does not exist, a null pointer.
Gone == -1
NULL == 0

NoText == 0

EmptyMem == [ptr |-> [h \in Handles |-> Gone], count |-> [o \in RefObjects |-> 0],
             text |-> [o \in RefObjects |-> NoText], bad |-> FALSE]

Unused(m) == {o \in RefObjects : m.count[o] = 0}
Living(m) == {h \in Handles : m.ptr[h] # Gone}

\* A new object with one reference, in h.
New(m, h, o, text) == [m EXCEPT !.ptr[h] = o, !.count[o] = 1, !.text[o] = text]

Increment(m, o) ==
  IF o = NULL THEN m ELSE [m EXCEPT !.bad = @ \/ m.count[o] = 0, !.count[o] = @ + 1]

\* One reference less; the last one deletes the object.
Decrement(m, o) ==
  IF o = NULL THEN m
  ELSE [m EXCEPT !.bad = @ \/ m.count[o] = 0, !.count[o] = IF @ = 0 THEN 0 ELSE @ - 1,
                 !.text[o] = IF m.count[o] = 1 THEN NoText ELSE @]

-----------------------------------------------------------------------------
(* SharedPtr.                                                               *)

ConstructPtr(h) ==
  /\ sharedMem.ptr[h] = Gone
  /\ \/ sharedMem' = [sharedMem EXCEPT !.ptr[h] = NULL]
     \/ \E o \in Unused(sharedMem) : sharedMem' = New(sharedMem, h, o, NoText)

CopyPtr(h, g) ==
  /\ sharedMem.ptr[h] = Gone /\ g \in Living(sharedMem)
  /\ sharedMem' = Increment([sharedMem EXCEPT !.ptr[h] = sharedMem.ptr[g]], sharedMem.ptr[g])

DestroyPtr(h) ==
  /\ h \in Living(sharedMem)
  /\ sharedMem' = Decrement([sharedMem EXCEPT !.ptr[h] = Gone], sharedMem.ptr[h])

\* Mutant: the test for self-assignment is missing.
MutAssignPtr(h, g) ==
  /\ h \in Living(sharedMem) /\ g \in Living(sharedMem)
  /\ LET released == Decrement(sharedMem, sharedMem.ptr[h])
     IN  sharedMem' = Increment([released EXCEPT !.ptr[h] = released.ptr[g]], released.ptr[g])

\* operator=: the old object is released before the new one is counted.
AssignPtr(h, g) ==
  /\ h \in Living(sharedMem) /\ g \in Living(sharedMem)
  /\ LET released == Decrement(sharedMem, sharedMem.ptr[h])
     IN  sharedMem' = IF h = g THEN sharedMem
                      ELSE Increment([released EXCEPT !.ptr[h] = released.ptr[g]], released.ptr[g])

GetRefCount(h) == IF sharedMem.ptr[h] \in {Gone, NULL} THEN 0 ELSE sharedMem.count[sharedMem.ptr[h]]

-----------------------------------------------------------------------------
(* RCString.                                                                *)

\* RCString(const char*), CreateMRC
ConstructString(h, text) ==
  /\ rcMem.ptr[h] = Gone
  /\ \E o \in Unused(rcMem) : rcMem' = New(rcMem, h, o, text)
  /\ rcText' = [rcText EXCEPT ![h] = text]

CopyString(h, g) ==
  /\ rcMem.ptr[h] = Gone /\ g \in Living(rcMem)
  /\ rcMem' = Increment([rcMem EXCEPT !.ptr[h] = rcMem.ptr[g]], rcMem.ptr[g])
  /\ rcText' = [rcText EXCEPT ![h] = rcText[g]]

\* operator=: IncNShare comes before DecOrDel, so a string may be assigned to itself.
AssignString(h, g) ==
  /\ h \in Living(rcMem) /\ g \in Living(rcMem)
  /\ LET rc == rcMem.ptr[g]
     IN  rcMem' = [Decrement(Increment(rcMem, rc), rcMem.ptr[h]) EXCEPT !.ptr[h] = rc]
  /\ rcText' = [rcText EXCEPT ![h] = rcText[g]]

DestroyString(h) ==
  /\ h \in Living(rcMem)
  /\ rcMem' = Decrement([rcMem EXCEPT !.ptr[h] = Gone], rcMem.ptr[h])
  /\ rcText' = [rcText EXCEPT ![h] = NoText]

\* Mutant: a string counts as shared from its third handle on.
MutIsShared(h) == rcMem.count[rcMem.ptr[h]] > 2

IsShared(h) == rcMem.count[rcMem.ptr[h]] > 1

\* An assignment to str[idx]: a shared string is copied first.  The reference that
\* operator[] returns is used at once.
WriteChar(h, text) ==
  /\ h \in Living(rcMem)
  /\ rcText' = [rcText EXCEPT ![h] = text]
  /\ IF IsShared(h)
     THEN \E o \in Unused(rcMem) : rcMem' = New(Decrement(rcMem, rcMem.ptr[h]), h, o, text)
     ELSE rcMem' = [rcMem EXCEPT !.text[rcMem.ptr[h]] = text]

-----------------------------------------------------------------------------
RefInit == sharedMem = EmptyMem /\ rcMem = EmptyMem /\ rcText = [h \in Handles |-> NoText]

RefNext ==
  \/ /\ rcMem = EmptyMem
     /\ \/ \E h \in Handles : ConstructPtr(h) \/ DestroyPtr(h)
        \/ \E h, g \in Handles : CopyPtr(h, g) \/ AssignPtr(h, g)
     /\ UNCHANGED <<rcMem, rcText>>
  \/ /\ sharedMem = EmptyMem /\ UNCHANGED sharedMem
     /\ \/ \E h \in Handles, t \in Texts : ConstructString(h, t) \/ WriteChar(h, t)
        \/ \E h \in Handles : DestroyString(h)
        \/ \E h, g \in Handles : CopyString(h, g) \/ AssignString(h, g)

\* After any sequence of copies, assignments and destructions, to oneself included,
\* an object counts exactly the handles that point to it, lives as long as there is
\* one and is not used later; and every string says what was assigned to it, whatever
\* was written to strings it once shared its text with.
CountsExact ==
  /\ \A m \in {sharedMem, rcMem} :
       /\ ~m.bad
       /\ \A o \in RefObjects : m.count[o] = Cardinality({h \in Handles : m.ptr[h] = o})
  /\ \A h \in Handles :
       /\ GetRefCount(h) = Cardinality({g \in Handles : sharedMem.ptr[g] = sharedMem.ptr[h] /\ sharedMem.ptr[g] > NULL})
       /\ h \in Living(rcMem) => rcMem.text[rcMem.ptr[h]] = rcText[h]

=============================================================================
