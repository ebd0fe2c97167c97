------------------------------ MODULE LRUCache ------------------------------
(***************************************************************************)
(* The cache of assets in memory: a list in the order of use, an index of  *)
(* the keys and the sum of sizes that AssetSizeCalculator keeps, as        *)
(* operators on a record k.                                                *)
(***************************************************************************)
EXTENDS Naturals, Sequences, SequencesExt

CONSTANTS
  SizeOf,      \* what an asset counts for: getSize() + TOTAL_OVERHEAD
  MaxSize,     \* _max_size
  NoAsset      \* the null Asset::ptr

EmptyCache == [list |-> <<>>, index |-> {}, size |-> 0]

Keys(list) == {list[n].key : n \in DOMAIN list}

Entry(k, key) == k.list[CHOOSE n \in DOMAIN k.list : k.list[n].key = key]

Without(list, key) == SelectSeq(list, LAMBDA e : e.key # key)

exists(k, key) == key \in k.index

touch(k, key) ==
  IF key \in k.index
  THEN [k EXCEPT !.list = <<Entry(k, key)>> \o Without(@, key)] ELSE k

\* Mutant: the sum of sizes is not told.
RemoveUncounted(k, key) ==
  [list |-> Without(k.list, key), index |-> k.index \ {key}, size |-> k.size]

remove(k, key) ==
  [list |-> Without(k.list, key), index |-> k.index \ {key},
   size |-> k.size - SizeOf[Entry(k, key).data]]

fetch(k, key) == IF exists(k, key) THEN Entry(k, key).data ELSE NoAsset

\* Entries go from the tail while the sum is above the limit; an asset above it
\* takes everything with it, itself included.  The code does not ask whether the
\* list is empty: with a sum that is right it never is (CacheSound), and here the
\* loop just ends, with a size above the limit.
RECURSIVE evict(_)
evict(k) ==
  IF k.size > MaxSize /\ k.list # <<>>
  THEN evict(remove(k, Last(k.list).key)) ELSE k

\* A key that is there is touched, then removed with its data.
insert(k, key, data) ==
  LET old == IF key \in k.index THEN remove(touch(k, key), key) ELSE k
  IN evict([list |-> <<[key |-> key, data |-> data]>> \o old.list,
            index |-> old.index \cup {key},
            size |-> old.size + SizeOf[data]])
=============================================================================
