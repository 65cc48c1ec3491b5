---------------------------- MODULE MCNodeSession ----------------------------
(* NodeSession with three nodes: one that can be picked by hand, and a country  *)
(* of two.                                                                  *)
EXTENDS NodeSession, TLC

CONSTANTS n1, n2, n3

MCNodes == {n1, n2, n3}
MCChoices == {MCNodes, {n1}, {n2, n3}}
MCWorlds == ({{}, {"start", "stop"}, {"engine", "deadline"}} \X {{}, {n2}}) \cup {<<{"overlap"}, {}>>}
=============================================================================
