----------------------------- MODULE MCHotCacheSizes -----------------------------
(***************************************************************************)
(* HotCachePolicies on the traces that repeat a few selections, in any     *)
(* order: behaviours of PoliciesSpec, with room for more channels and      *)
(* longer traces than all selections leave.                                *)
(***************************************************************************)
EXTENDS HotCachePolicies

Recurring ==
  {{0, 1, 4, 5, 6}, {3, 4, 5, 6, 7}, {0, 3, 4, 6, 7}, {1, 2, 3, 5, 6}, {0, 1, 2, 4, 5}}

SizesNext == \E S \in Recurring \cap kSubset(dip_k, Channels) : Token(S)

SizesSpec == PoliciesInit /\ [][SizesNext]_policyVars
=============================================================================
