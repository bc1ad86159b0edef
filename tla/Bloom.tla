-------------------------------- MODULE Bloom --------------------------------
(***************************************************************************)
(* The Bloom filter of the `bloomfilter` crate, as bloom.rs uses it: a set *)
(* of bits, a fixed non-empty set of bits for each URL string, and the two *)
(* calls `check` and `set`.  Two URLs may share bits, so `Check` may hold  *)
(* for a URL that nobody inserted (a false positive).                      *)
(***************************************************************************)
CONSTANTS
  Url,    \* the URL strings the filter is asked about
  Bit,    \* the positions of the filter's bit array
  Hash    \* the bits each URL maps to (the k hash functions)

ASSUME HashAssumption == Hash \in [Url -> (SUBSET Bit) \ {{}}]

\* Bloom::check: every bit of u is set.
Check(bits, u) == Hash[u] \subseteq bits

\* Bloom::set: sets every bit of u.
Set(bits, u) == bits \cup Hash[u]
=============================================================================
