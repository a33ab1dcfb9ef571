------------------------------- MODULE MCP4Fs -------------------------------
(***************************************************************************)
(* Small depots for P4Fs.                                                  *)
(***************************************************************************)
EXTENDS P4Fs

Dir(path)  == [path |-> path, kind |-> "dir",  size |-> 0, gone |-> FALSE]
File(path) == [path |-> path, kind |-> "file", size |-> 1, gone |-> FALSE]
Link(path) == [path |-> path, kind |-> "link", size |-> 2, gone |-> FALSE]
Gone(path) == [path |-> path, kind |-> "file", size |-> 0, gone |-> TRUE]

(* Two directories between whose entries the tree interleaves, files next  *)
(* to them, one with the name of a directory, the same names at different  *)
(* places, and every kind of entry.                                        *)
MCDepot ==
  {Dir(<<0, 1>>), Dir(<<0, 3>>), File(<<0, 2>>), File(<<0, 3>>),
   File(<<0, 1, 2>>), Link(<<0, 1, 3>>),
   File(<<0, 3, 1>>), Gone(<<0, 3, 2>>)}

(* A directory that is nothing but files. *)
MCFlat == {File(<<0, i>>) : i \in 1 .. 5}

(* No name at all. *)
MCShort == [x \in {} |-> 0]

(* Two names that together do not fit in the arena without growing it, and *)
(* an overlong name that begins like one of them.                          *)
MCLong == 1 :> 2 @@ 3 :> 3
MCOverlong == 4 :> 1
=============================================================================
