------------------------------- MODULE MCEdge -------------------------------
(* Edge with the two mounts of one scope: read, and write with a token that  *)
(* expires early.  A request's body may also name the other scope.           *)
EXTENDS Edge

MCTokens == { [fs |-> "s1", intent |-> "read",  exp |-> MaxTime + 1],
              [fs |-> "s1", intent |-> "write", exp |-> 2] }
=============================================================================
