--------------------------- MODULE MCClusterStats ----------------------------
(* TLC instance of ClusterStats: two nodes, three workers.                 *)
EXTENDS ClusterStats
=============================================================================
