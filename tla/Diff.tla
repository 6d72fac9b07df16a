-------------------------------- MODULE Diff --------------------------------
(***************************************************************************)
(* The package diff of the target allocator: which keys of a map were      *)
(* added and which were removed between two versions of it.                *)
(*                                                                         *)
(* A Go map[string]T with T a Hasher is modelled by the function that maps *)
(* each key to the hash of its value; Changes holds the two sets of keys.  *)
(***************************************************************************)

\* Changes.additions and Changes.removals, for keys from the set Key.
Changes(Key) == [additions : SUBSET Key, removals : SUBSET Key]

\* diff.Maps: a key whose value changed its hash is an addition and a removal.
Maps(current, new) ==
    [additions |-> {k \in DOMAIN new :
                        k \in DOMAIN current => new[k] # current[k]},
     removals  |-> {k \in DOMAIN current :
                        k \in DOMAIN new => new[k] # current[k]}]

\* A map whose key is the hash of its value, as the maps of target items
\* (keyed by Item.Hash()) and of collectors (keyed by Collector.Hash(), the
\* name) are.
HashKeyed(S) == [k \in S |-> k]

=============================================================================
