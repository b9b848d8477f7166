------------------------------ MODULE MCSlicer ------------------------------
EXTENDS Slicer

MCBlocks == {b \in [top : -1 .. 4, bottom : -1 .. 5] : b.top <= b.bottom}

(* Up to three blocks that may overlap, nest, start above the document or  *)
(* have no height; a text below them or none; no height reserved.          *)
MCContents ==
  [blocks : UNION {[1 .. n -> MCBlocks] : n \in 0 .. 3},
   baselines : {<< >>, <<6>>},
   reserved : {0}]
=============================================================================
