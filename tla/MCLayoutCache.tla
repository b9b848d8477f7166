--------------------------- MODULE MCLayoutCache ---------------------------
EXTENDS LayoutCache

MCDefaultViewport == [width |-> 800, height |-> 600, scale |-> 1]
=============================================================================
