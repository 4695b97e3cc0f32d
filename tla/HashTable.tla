------------------------------ MODULE HashTable ------------------------------
(***************************************************************************)
(* The hash table (ds/src/hash_table.c): an array of singly linked lists.  *)
(* A bucket is the sequence its list stands for (LinkedLists); its end is  *)
(* position Len + 1.                                                       *)
(***************************************************************************)
EXTENDS Integers, Sequences, SequencesExt, FiniteSetsExt

CONSTANTS
  Capacity,   \* number of buckets
  HashKeys    \* keys, a set of numbers; the hash of a key is the key

VARIABLES
  table,      \* the buckets, NoTable before HashTableCreate succeeds
  tableKeys,  \* the keys the table should hold
  tableTold,  \* the last call returned what these keys say
  lists       \* number of lists allocated

tableVars == <<table, tableKeys, tableTold, lists>>

NoTable == << >>
Buckets == 0 .. Capacity - 1

-----------------------------------------------------------------------------
HashIndex(key) == key % Capacity

\* Mutant: the search stops before the last element.
MutHashFindInBucket(bucket, key) ==
  Min({i \in DOMAIN bucket : bucket[i] = key /\ i < Len(bucket)} \union {Len(bucket) + 1})

\* SLLFind with is_match: a position, Len + 1 when nothing matches.
HashFindInBucket(bucket, key) ==
  Min({i \in DOMAIN bucket : bucket[i] = key} \union {Len(bucket) + 1})

SLLEnd(bucket) == Len(bucket) + 1

HashTableFind(key) ==
  LET bucket == table[HashIndex(key)]
  IN  HashFindInBucket(bucket, key) # SLLEnd(bucket)

HashTableSize == MapThenSumSet(LAMBDA i : Len(table[i]), Buckets)

HashTableIsEmpty == \A i \in Buckets : table[i] = << >>

\* HashTableForEach: the elements its action sees before the first non-zero
\* answer, which here is given for the key stop.
HashTableForEach(stop) ==
  LET all == FoldLeft(LAMBDA acc, i : acc \o table[i - 1], << >>, [i \in 1 .. Capacity |-> i])
      end == Min({i \in DOMAIN all : all[i] = stop} \union {Len(all)})
  IN  SubSeq(all, 1, end)

-----------------------------------------------------------------------------
(* The calls a program makes.                                               *)

\* HashTableCreate: the struct, the array or the list number fails + 1 may not
\* be had; what was allocated before is given back.
HashTableCreate(fails) ==
  /\ table = NoTable
  /\ table' = IF fails = Capacity THEN [i \in Buckets |-> << >>] ELSE NoTable
  /\ lists' = IF fails = Capacity THEN Capacity ELSE 0
  /\ tableTold' = TRUE
  /\ UNCHANGED tableKeys

\* A new element is put in front of its bucket; SLLInsert answers with the end
\* of the list when there is no memory.
HashTableInsert(key, malloc) ==
  LET b == HashIndex(key)
      bucket == IF malloc THEN <<key>> \o table[b] ELSE table[b]
      iter == IF malloc THEN 1 ELSE SLLEnd(bucket)
      status == IF iter = SLLEnd(bucket) THEN 1 ELSE 0
  IN  /\ table # NoTable
      /\ HashFindInBucket(table[b], key) = SLLEnd(table[b])
      /\ table' = [table EXCEPT ![b] = bucket]
      /\ tableKeys' = IF malloc THEN tableKeys \union {key} ELSE tableKeys
      /\ tableTold' = (status = 0 <=> malloc)
      /\ UNCHANGED lists

HashTableRemove(key) ==
  LET b == HashIndex(key)
      at == HashFindInBucket(table[b], key)
  IN  /\ table # NoTable
      /\ table' = IF at = SLLEnd(table[b]) THEN table ELSE [table EXCEPT ![b] = RemoveAt(@, at)]
      /\ tableKeys' = tableKeys \ {key}
      /\ tableTold' = TRUE
      /\ UNCHANGED lists

HashTableDestroy ==
  /\ table # NoTable
  /\ table' = NoTable
  /\ lists' = lists - Cardinality(DOMAIN table)
  /\ tableKeys' = {}
  /\ tableTold' = TRUE

TableInit ==
  /\ table = NoTable
  /\ tableKeys = {}
  /\ tableTold = TRUE
  /\ lists = 0

TableNext ==
  \/ \E fails \in 0 .. Capacity : HashTableCreate(fails)
  \/ \E key \in HashKeys :
       \/ \E malloc \in BOOLEAN : HashTableInsert(key, malloc)
       \/ HashTableRemove(key)
  \/ HashTableDestroy

-----------------------------------------------------------------------------
\* The table finds the keys it was given and no other, counts each once, keeps
\* each in one bucket, and no list outlives the table.
TableIsTheSet ==
  /\ tableTold
  /\ lists = IF table = NoTable THEN 0 ELSE Capacity
  /\ table # NoTable =>
       /\ \A key \in HashKeys : HashTableFind(key) <=> key \in tableKeys
       /\ HashTableSize = Cardinality(tableKeys)
       /\ HashTableIsEmpty <=> tableKeys = {}
       /\ \A key \in HashKeys :
            LET seen == HashTableForEach(key)
            IN  /\ key \in tableKeys => Last(seen) = key
                /\ key \notin tableKeys => ToSet(seen) = tableKeys

=============================================================================
