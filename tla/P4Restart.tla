----------------------------- MODULE P4Restart -----------------------------
(***************************************************************************)
(* P4Fs with a daemon that may die at any time, between two lines of a p4  *)
(* answer too, and is started again (main(), main.cpp 832-838).            *)
(*                                                                         *)
(* The inode table lives in the file inf.temp, mapped shared and opened    *)
(* without O_TRUNC: what the dead daemon wrote is there, unless the files  *)
(* were removed in between, as test.sh does together with the workspace.   *)
(* Everything else the daemon knew is lost, and its mount with it: the     *)
(* kernel starts with the root alone.                                      *)
(*                                                                         *)
(* A new daemon goes back to kept entries only if the dead one had not yet *)
(* marked the root as listed.  Of such an entry it reads the length of the *)
(* dead name and gives that back to its own arena, which was never told of *)
(* it: a listing may then not come back, or put a name over another one.   *)
(***************************************************************************)
EXTENDS P4Fs

CONSTANT MaxRestarts   \* bound: restarts
ASSUME RestartAssumption == MaxRestarts \in Nat

VARIABLES
  restarts,    \* history: restarts so far
  kept         \* history: this daemon was started on the files of another one

rvars == <<table, local, fds, known, p4u, job, handles, cut, restarts, kept>>

InitR == Init /\ restarts = 0 /\ kept = FALSE

(* A new process on a table and a workspace. The root of a kept table may  *)
(* be marked as listed, and then shows an incomplete directory.            *)
Start(ent, synced) ==
  /\ restarts < MaxRestarts /\ restarts' = restarts + 1
  /\ table' = InitTableOn(ent)
  /\ local' = synced
  /\ fds' = [f \in {} |-> <<>>]
  /\ known' = {Told(InitTable, 1, 0, RootName)}
  /\ p4u' = [node |-> 0, name |-> RootName]
  /\ job' = NoJob
  /\ handles' = [n \in Ids |-> 0]
  /\ cut' = IF table'.ent[1].bList THEN {1} ELSE {}

RestartKept == Start(table.ent, local) /\ kept' = TRUE
RestartRemoved == Start([i \in Ids |-> Blank], {}) /\ kept' = FALSE

NextR == (Next /\ UNCHANGED <<restarts, kept>>) \/ RestartKept \/ RestartRemoved

SpecR == InitR /\ [][NextR]_rvars
-----------------------------------------------------------------------------
(* A daemon is stopped by its arena, or loses a name there, only on the    *)
(* files of another one: however often the daemon died before, on removed  *)
(* files a listing of any length comes back with every name in its place.  *)
StuckOnKept == Stuck => kept
=============================================================================
