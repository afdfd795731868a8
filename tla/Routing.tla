------------------------------ MODULE Routing ------------------------------
(***************************************************************************)
(* Which shard of an index serves a document (index.c).  Shards have the   *)
(* code's numbers, from 0.  The hashes given with a request are a sequence *)
(* of any length, of which a GET or PUT keeps the first (workload.c:65).   *)
(***************************************************************************)
EXTENDS Integers, Sequences, SequencesExt

CONSTANTS
    HashP,          \* INDEX_HASH_P
    HashA, HashB,   \* idx->hash_a and idx->hash_b, drawn by index_init
    NumShards       \* idx->shards.size

ASSUME RoutingAssumption ==
    /\ HashP \in Nat \ {0}
    /\ HashA \in 1..(HashP - 1) /\ HashB \in 0..(HashP - 1)
    /\ NumShards \in Nat \ {0}

ShardNumbers == 0..(NumShards - 1)

\* The remainder of C: the quotient is truncated towards 0, so the sign is
\* that of x.
CRem(x, m) == IF x >= 0 THEN x % m ELSE -((-x) % m)

\* Mutant: one remainder is thought to be enough.
HashOneRemainder(document) == CRem(HashA * document + HashB, HashP)

\* index_hash.
Hash(document) == CRem(CRem(HashA * document + HashB, HashP) + HashP, HashP)

\* index_get_shard_from_hash, and the same step of index_get_shard_for.
ShardFromHash(hash) == CRem(hash, NumShards)

\* index_compute_shard: a negative hash names the shard itself, any other one
\* is hashed once more.
ComputeShard(document, given) ==
    CASE given = <<>>   -> ShardFromHash(Hash(document))
      [] given # <<>> /\ given[1] < 0  -> CRem(-given[1] - 1, NumShards)
      [] given # <<>> /\ given[1] >= 0 -> ShardFromHash(Hash(given[1]))

\* search_phase_arrived: all shards, or the distinct ones of the given hashes,
\* which are not hashed again.
SearchShards(hashes) ==
    LET found[n \in 0..Len(hashes)] ==
            IF n = 0 THEN <<>>
            ELSE LET s == ShardFromHash(hashes[n])
                 IN  IF Contains(found[n - 1], s) THEN found[n - 1] ELSE Append(found[n - 1], s)
    IN  IF hashes = <<>> THEN [i \in 1..NumShards |-> i - 1] ELSE found[Len(hashes)]
=============================================================================
