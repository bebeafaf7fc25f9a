----------------------------- MODULE MCKvServer -----------------------------
(* Small instance of KvServer: two keys, one small and one large value.    *)
EXTENDS KvServer, TLC

CONSTANTS vSmall, vLarge

MCValLen == vSmall :> 1 @@ vLarge :> 5

BlockSymmetry == Permutations(Blocks)
=============================================================================
