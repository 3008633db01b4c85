------------------------------- MODULE MCForms -------------------------------
(* A calendar of three short months, the second shorter than its neighbours. *)
EXTENDS Forms

MCMonthEnds == <<4, 6, 10>>
==============================================================================
