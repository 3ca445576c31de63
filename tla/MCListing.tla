----------------------------- MODULE MCListing -----------------------------
(* Model-checking instance of Listing: the directory itself, two children, a *)
(* grandchild, a sibling and an entry with neither arm.                      *)
EXTENDS Listing

MCDir == <<"d">>

MCEntries ==
    {[arm |-> "dir",  path |-> <<"d">>],
     [arm |-> "file", path |-> <<"d", "f">>],
     [arm |-> "dir",  path |-> <<"d", "g">>],
     [arm |-> "file", path |-> <<"d", "g", "h">>],
     [arm |-> "file", path |-> <<"e", "f">>],
     [arm |-> "none", path |-> <<"d", "n">>]}
=============================================================================
