----------------------------- MODULE MCWatcher -------------------------------
(* TLC instance of Watcher: two servers, a log of a few writes.            *)
EXTENDS Watcher, TLC

CONSTANTS jobs, allocs, s1, s2
=============================================================================
