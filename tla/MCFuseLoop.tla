----------------------------- MODULE MCFuseLoop -----------------------------
(***************************************************************************)
(* Small instances of FuseLoop.  Sizes are scaled down: a header is two    *)
(* units and a directory record is aligned to two, so that a reply of odd  *)
(* size (RELEASE, FLUSH, ACCESS: a header and one byte) misaligns the next *)
(* chunk as it does in the code.                                           *)
(***************************************************************************)
EXTENDS FuseLoop

(* sizeof(outkind): one byte for FLUSH, ACCESS and RELEASE. *)
MCOutSz ==
  [op \in PrologueOps |-> IF op \in {"FLUSH", "ACCESS", "RELEASE"} THEN 1 ELSE 2]

(* All opcode groups at once, one opcode of each shape. *)
MCAllOps ==
  {"GETATTR", "RELEASE", "OPENDIR", "STATFS", "READLINK", "READDIR", "READ",
   "FORGET", "SETATTR"}

(* Streams of requests that wrap read_buf, with one that leaves something  *)
(* allocated when it gives up: stalls of both kinds come and go.           *)
MCRingOps == {"GETATTR", "FORGET", "READLINK", "READ"}
=============================================================================
