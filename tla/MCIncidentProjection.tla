--------------------------- MODULE MCIncidentProjection ---------------------------
(* Two requests for one alert, a writer that resolves and one that mitigates. *)
EXTENDS IncidentProjection

CONSTANTS d1, d2, w1, w2

WriterStatuses == [w \in {w1, w2} |-> IF w = w1 THEN "resolved" ELSE "mitigating"]
===============================================================================
