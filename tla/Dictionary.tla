------------------------------ MODULE Dictionary ------------------------------
(***************************************************************************)
(* What callers rely on codect-hash.c for: a set of records in which no    *)
(* two match, where a search for a key finds the record that matches it    *)
(* whenever there is one.  No buckets, chains, hash keys or counters.      *)
(***************************************************************************)
EXTENDS Integers, FiniteSets

CONSTANTS Elem, Key, Match(_, _), NULL

VARIABLES
  members,  \* NULL before h_open and after h_close, else the set of pointers
  mem,      \* the contents of the record at each pointer
  out,      \* what the latest call returned: [rc, ptr, av]
  status    \* "running", "exited" or "crashed"

vars == <<members, mem, out, status>>

-----------------------------------------------------------------------------
Running == status = "running"

Answer(rc, ptr) == out' = [rc |-> rc, ptr |-> ptr, av |-> <<>>]

Matching(k) == {m \in members : Match(mem[m], k)}

\* The array handed back lists every member once.
Lists(av, S) == /\ {av[s] : s \in DOMAIN av} = S
                /\ \A s, t \in DOMAIN av : av[s] = av[t] => s = t

Stop == /\ Running
        /\ status' \in {"exited", "crashed"}
        /\ UNCHANGED <<members, mem, out>>

Open == /\ Running
        /\ members = NULL
        /\ members' = {}
        /\ Answer(0, NULL)
        /\ UNCHANGED <<mem, status>>

Close == /\ Running
         /\ members # NULL
         /\ members' = NULL
         /\ Answer(0, NULL)
         /\ UNCHANGED <<mem, status>>

Count == /\ Running
         /\ members # NULL
         /\ Answer(Cardinality(members), NULL)
         /\ UNCHANGED <<members, mem, status>>

Insert(p) == /\ Running
             /\ members # NULL
             /\ IF Matching(mem[p]) = {}
                  THEN members' = members \cup {p} /\ Answer(0, NULL)
                  ELSE members' = members /\ Answer(1, NULL)
             /\ UNCHANGED <<mem, status>>

Search(k) == /\ Running
             /\ members # NULL
             /\ \/ Matching(k) = {} /\ Answer(0, NULL)
                \/ \E m \in Matching(k) : Answer(0, m)
             /\ UNCHANGED <<members, mem, status>>

Delete(k) == /\ Running
             /\ members # NULL
             /\ \/ Matching(k) = {} /\ members' = members /\ Answer(0, NULL)
                \/ \E m \in Matching(k) : members' = members \ {m} /\ Answer(0, m)
             /\ UNCHANGED <<mem, status>>

\* h_gather_data leaves the members, h_drain removes them all.
HandOut(rest) == /\ Running
                 /\ members # NULL
                 /\ members' = rest
                 /\ out'.rc = Cardinality(members)
                 /\ out'.ptr = NULL
                 /\ Lists(out'.av, members)
                 /\ UNCHANGED <<mem, status>>

Write(p, k) == /\ Running
               /\ members = NULL \/ p \notin members
               /\ mem' = [mem EXCEPT ![p] = k]
               /\ UNCHANGED <<members, out, status>>

-----------------------------------------------------------------------------
Init == /\ members = NULL
        /\ mem \in [Elem -> Key]
        /\ out = [rc |-> 0, ptr |-> NULL, av |-> <<>>]
        /\ status = "running"

Next == \/ Open \/ Close \/ Count \/ Stop
        \/ \E p \in Elem : Insert(p)
        \/ \E k \in Key : Search(k) \/ Delete(k)
        \/ HandOut(members) \/ HandOut({})
        \/ \E p \in Elem, k \in Key : Write(p, k)

Spec == Init /\ [][Next]_vars
=============================================================================
