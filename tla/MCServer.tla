------------------------------ MODULE MCServer ------------------------------
EXTENDS Server

(* Lines of three or four bytes, with a character of two bytes in all but  *)
(* the PANIC line, whose fixed text has none.                              *)
MCShape ==
  [e \in Events |->
     CASE e = "START"   -> <<"begins", "begins", "continues">>
       [] e = "STOP"    -> <<"begins", "begins", "continues">>
       [] e = "PANIC"   -> <<"begins", "begins">>
       [] e = "UNCLEAN" -> <<"begins", "continues", "begins", "continues">>]
=============================================================================
