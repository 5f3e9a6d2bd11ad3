----------------------------- MODULE MCHashTable -----------------------------
(***************************************************************************)
(* Small instances of HashTable: a one-sided prefix comparator like that   *)
(* of the PC cache, and a lawful one (an equivalence the hash key          *)
(* respects), under which the table implements Dictionary.                 *)
(***************************************************************************)
EXTENDS HashDictionary

\* A table of the prefix instance: traces of up to two addresses, hashed so
\* that a trace and its extensions share or miss a bucket depending on the size.
TraceKey == {<<1>>, <<1, 2>>, <<2>>, <<1, 2, 2>>}

TraceHash(k) == k[1] + Len(k)

TraceMatch(stored, key) == IsPrefix(stored, key)

\* The lawful instance: keys 0..3 in the classes {0, 2}, {1} and {3}.
ClassKey == 0 .. 3

Class(k) == IF k = 2 THEN 0 ELSE k

ClassHash(k) == Class(k)

ClassMatch(stored, key) == Class(stored) = Class(key)

MCSizes == {0, 1, 2, 3}
=============================================================================
