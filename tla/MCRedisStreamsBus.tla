--------------------------- MODULE MCRedisStreamsBus ---------------------------
(* Two handlers, one of them a wildcard, two reader tasks, two entries. *)
EXTENDS RedisStreamsBus, TLC
===============================================================================
