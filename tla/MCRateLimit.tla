---------------------------- MODULE MCRateLimit ----------------------------
(***************************************************************************)
(* RateLimit for TLC: three client groups and a table of two buckets, so   *)
(* that sweeping, failing open and metering all happen, also of a key the  *)
(* sweep has just forgotten; a minute of three seconds and two attempts a  *)
(* minute, so that a token takes a second and a half.                      *)
(***************************************************************************)
EXTENDS RateLimit, TLC

CONSTANTS v4, u4, v6, w6,   \* clients; v6 and w6 share a /64
          proxy, inner      \* trusted proxies

Symmetry == Permutations(Request)

Grouped ==
  [n \in {v4, u4, v6, w6, proxy, inner} |-> IF n = w6 THEN v6 ELSE n]

ProxyPaths == {<<>>, <<inner, proxy>>}

ForgedHeaders == {<<>>, <<v4>>, <<v4, Garbage, inner>>}
=============================================================================
