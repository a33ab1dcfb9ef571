---------------------------- MODULE MCP4Restart ----------------------------
(***************************************************************************)
(* Small depots for P4Restart.                                             *)
(***************************************************************************)
EXTENDS P4Restart

(* Files and a link, some of them in a directory that may be listed while *)
(* others are open.                                                        *)
MCFiles ==
  {[path |-> <<0, 1>>, kind |-> "file", size |-> 1, gone |-> FALSE],
   [path |-> <<0, 2>>, kind |-> "dir",  size |-> 0, gone |-> FALSE],
   [path |-> <<0, 3>>, kind |-> "link", size |-> 2, gone |-> FALSE],
   [path |-> <<0, 2, 1>>, kind |-> "file", size |-> 1, gone |-> FALSE],
   [path |-> <<0, 2, 3>>, kind |-> "file", size |-> 1, gone |-> FALSE]}

(* Two names that together do not fit in the arena without growing it, and *)
(* an overlong name that begins like one of them.                          *)
MCLong == 1 :> 2 @@ 3 :> 3
MCOverlong == 4 :> 3
=============================================================================
