------------------------------- MODULE MCRouter -------------------------------
(***************************************************************************)
(* Router on small instances: three aliases served by two backends.        *)
(***************************************************************************)
EXTENDS Router

CONSTANTS think, small, other, b1, b2

ThreeAliases == {think, small, other}
TheBackends  == [a \in ThreeAliases |-> IF a = other THEN b2 ELSE b1]
TheSmallTier == {small}
===============================================================================
