------------------------------ MODULE MCBackground ------------------------------
(* Two listeners; an hour of two units, a day of four, so runs of the same *)
(* hour fall into two days; a budget of two runs and a half; handlers one    *)
(* unit late at most.                                                        *)
EXTENDS Background

=============================================================================
