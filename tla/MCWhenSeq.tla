------------------------------- MODULE MCWhenSeq -------------------------------
(* A pack with an ignored value, an empty container, a nested tuple that begins  *)
(* with a container, and containers that end together.                           *)
EXTENDS WhenSeq

CONSTANTS a1, b1, b2, c1

MCSub == [n \in {"top", "empty", "outer", "inner"} |->
            CASE n = "top"   -> <<a1, "plain", "empty", "outer">>
              [] n = "empty" -> <<>>
              [] n = "outer" -> <<"inner", c1>>
              [] n = "inner" -> <<b1, b2>>]

\* What WrittenAssumption says of a pack, for this one.
MCWritten == <<a1, b1, b2, c1>>

MCBefore == [n \in {"top", "empty", "outer", "inner"} |->
               CASE n = "top"   -> <<0, 1, 1, 1, 4>>
                 [] n = "empty" -> <<1>>
                 [] n = "outer" -> <<1, 3, 4>>
                 [] n = "inner" -> <<1, 2, 3>>]

\* The elements the visitor accepts in a node, computed from the nodes in it.
Flat[n \in Node] ==
  FlattenSeq([i \in DOMAIN Sub[n] |->
                LET e == Sub[n][i]
                IN  CASE e \in Node -> Flat[e] [] e \in Leaf -> <<e>> [] OTHER -> <<>>])

ASSUME FlatAssumption == Written = Flat[Top]
===============================================================================
