---------------------------- MODULE HashDictionary ----------------------------
(***************************************************************************)
(* The abstract view of HashTable: what a caller can tell of a table is    *)
(* the set of linked pointers; chains, buckets and the counter do not      *)
(* show.  The table implements Dictionary in that view if records that     *)
(* match are hashed alike.                                                 *)
(***************************************************************************)
EXTENDS HashTable

Members == IF ht = NULL THEN NULL ELSE Linked

\* A handle is NULL or a table: no set of pointers is mistaken for NULL.
ASSUME MembersAssumption == \A S \in SUBSET Elem : S # NULL

Promise == INSTANCE Dictionary WITH members <- Members

\* Seen through Members, every call does what Dictionary promises of it: a
\* search or a delete that finds nothing means no linked record matches, an
\* insert is refused exactly if one does, and arrays list every member once.
ImplementsDictionary == Promise!Spec
=============================================================================
