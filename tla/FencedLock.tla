------------------------------ MODULE FencedLock ------------------------------
(***************************************************************************)
(* What the lock port promises about ONE resource key, whatever the        *)
(* coordination store behind it (ports/lock_manager.py): the key holds at  *)
(* most one record; a record is installed on a vacant key, or over a       *)
(* record of strictly lower priority; each installed record carries a      *)
(* fencing token greater than every token installed before it; the key may *)
(* become vacant at any time (release or TTL expiry).                      *)
(*                                                                         *)
(* PrioritySpec is the promise without the order of the tokens.            *)
(***************************************************************************)
EXTENDS Naturals

CONSTANTS
    Agents,      \* values of LockRequest.agent_id
    Priorities,  \* values of LockRequest.priority_level; a smaller one wins
    NoLock       \* the key does not exist

LockRecord == [agent : Agents, priority : Priorities, token : Nat \ {0}]

VARIABLES
    lock,    \* the record stored under the lock key, or NoLock
    newest   \* the largest fencing token of any record installed so far

vars == <<lock, newest>>

Init ==
    /\ lock = NoLock
    /\ newest = 0

InstallByPriority ==
    /\ lock' \in LockRecord
    /\ lock # NoLock => lock'.priority < lock.priority
    /\ newest' = IF lock'.token > newest THEN lock'.token ELSE newest

Install ==
    /\ InstallByPriority
    /\ lock'.token > newest

Vacate ==
    /\ lock # NoLock
    /\ lock' = NoLock
    /\ UNCHANGED newest

Spec == Init /\ [][Install \/ Vacate]_vars

PrioritySpec == Init /\ [][InstallByPriority \/ Vacate]_vars
===============================================================================
