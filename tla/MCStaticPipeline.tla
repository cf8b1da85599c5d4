--------------------------- MODULE MCStaticPipeline ---------------------------
(* Instances of StaticPipeline for TLC. *)
EXTENDS StaticPipeline

CONSTANTS e1

MCEntities == {e1}
MCConfidences == {0, 69, 90}
MCNoMessages == {}
===============================================================================
