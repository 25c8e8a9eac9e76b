---------------------------- MODULE OrderedDict ----------------------------
(***************************************************************************)
(* The operations of Python's collections.OrderedDict that load_balancer.py *)
(* applies to _key_cache and _processing_keys (external: the class is the   *)
(* standard library's).                                                     *)
(*                                                                          *)
(* A dictionary is the sequence of its items in insertion order, oldest     *)
(* first, each item a record [key, val]; no key occurs twice (IsDict).      *)
(***************************************************************************)
EXTENDS Integers, FiniteSets, SequencesExt

\* Every ordered dictionary with keys in K and values in V is one of these
\* sequences, and one in which IsDict holds.
Items(K, V) == Seq([key : K, val : V])

IsDict(d) == \A i, j \in DOMAIN d : d[i].key = d[j].key => i = j

Keys(d) == {d[i].key : i \in DOMAIN d}

\* Key x comes before key y.
Before(d, x, y) ==
  \E i, j \in DOMAIN d : i < j /\ d[i].key = x /\ d[j].key = y

Position(d, k) == CHOOSE i \in DOMAIN d : d[i].key = k

\* d[k], for a key of d
Get(d, k) == d[Position(d, k)].val

\* "if k in d: del d[k]"
Discard(d, k) ==
  IF k \in Keys(d) THEN RemoveAt(d, Position(d, k)) ELSE d

\* "del d[k]" for every key that stands outside the positions I: the other items
\* keep their order.
Only(d, I) ==
  [k \in 1 .. Cardinality(I) |->
    d[CHOOSE i \in I : Cardinality({j \in I : j <= i}) = k]]

\* d[k] = v: a key that is present keeps its place, a new one goes last.
Assign(d, k, v) ==
  IF k \in Keys(d)
    THEN [d EXCEPT ![Position(d, k)] = [key |-> k, val |-> v]]
    ELSE Append(d, [key |-> k, val |-> v])

\* d.move_to_end(k), for a key of d
MoveToEnd(d, k) ==
  Append(RemoveAt(d, Position(d, k)), d[Position(d, k)])

\* "while len(d) >= max: d.popitem(last=False)", for max > 0
EvictWhileFull(d, max) ==
  IF Len(d) < max THEN d ELSE SubSeq(d, Len(d) - max + 2, Len(d))

=============================================================================
