----------------------------- MODULE MCCatalog -----------------------------
(***************************************************************************)
(* An instance of Catalog for TLC: two clients create the same zone, two   *)
(* records of one name in it, and bindings with two credentials of which   *)
(* one is no map of strings.                                               *)
(***************************************************************************)
EXTENDS Catalog, TLC

CONSTANTS example, www, A, TXT, a1, route53, Z1, token, list,
          p1, p2, k1, k2

Zone == [op |-> "create_zone", name |-> example]
Record(type) == [op |-> "create_record", name |-> www, type |-> type, ttl |-> 1,
                 values |-> {a1}]
Provider(credentials) ==
    [op |-> "create_provider", type |-> route53, target |-> Z1,
     credentials |-> credentials]

MCRequests ==
    {Zone, Record(A), Record(TXT), Provider(token), Provider(list),
     [op |-> "list_zones"], [op |-> "list_records"],
     [Zone EXCEPT !.name = TooLong], [Record(A) EXCEPT !.ttl = 0],
     [Provider(token) EXCEPT !.type = Blank]}

\* Which client calls, and which of the keys it is, makes no difference.
Symmetry == Permutations({p1, p2}) \union Permutations({k1, k2})
=============================================================================
