------------------------------ MODULE MCP4Vfs ------------------------------
(***************************************************************************)
(* Small instances of P4Vfs: the sizes of MCFuseLoop, depots of MCP4Fs.    *)
(***************************************************************************)
EXTENDS P4Vfs

MCOutSz ==
  [op \in {"INIT", "GETATTR", "LSEEK", "FLUSH", "ACCESS", "OPEN", "RELEASE", "LOOKUP"} |->
     IF op \in {"FLUSH", "ACCESS", "RELEASE"} THEN 1 ELSE 2]

(* A file to open and share, and a link to read again and again. *)
MCShared == {[path |-> <<0, 1>>, kind |-> "file", size |-> 1, gone |-> FALSE],
             [path |-> <<0, 2>>, kind |-> "link", size |-> 1, gone |-> FALSE]}
MCSharedOps == {"LOOKUP", "OPEN", "RELEASE", "READ", "READLINK"}

(* A directory in the root, to list one after the other. *)
MCDirs == {[path |-> <<0, 1>>, kind |-> "dir", size |-> 0, gone |-> FALSE],
           [path |-> <<0, 1, 1>>, kind |-> "file", size |-> 1, gone |-> FALSE]}
MCDirOps == {"LOOKUP", "READDIR", "OPEN"}

(* No name: every name is short here (P4Fs has long and overlong ones). *)
MCShort == [x \in {} |-> 0]
=============================================================================
