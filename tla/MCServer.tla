------------------------------ MODULE MCServer ------------------------------
(* Server on command lines, environments and files of every kind. *)
EXTENDS Server

NoFile == [named |-> FALSE, state |-> "absent", sets |-> <<>>]

FileSetting(sets) == [named |-> TRUE, state |-> "read", sets |-> sets]

(* Nothing set.  One connection, on the command line or in the environment *)
(* over a file with a large min_conns.  min_conns too large for one layer  *)
(* but not for the layers together, and the reverse.  Values that are not  *)
(* allowed or do not parse.  Files that are missing or broken.             *)
Starts ==
  {[flags |-> <<>>, env |-> <<>>, file |-> NoFile]}
  \cup {[flags |-> f, env |-> e, file |-> FileSetting(s)] :
          f \in {<<>>, [max_conns |-> 1]},
          e \in {<<>>, [min_conns |-> 0], [cleanup_interval |-> 0]},
          s \in {<<>>, [max_conns |-> 1, min_conns |-> 1], [min_conns |-> Malformed]}}
  \cup {[flags |-> <<>>, env |-> <<>>, file |-> f] :
          f \in {[NoFile EXCEPT !.named = TRUE],
                 [NoFile EXCEPT !.state = "broken"]}}
=============================================================================
