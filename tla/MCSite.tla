------------------------------- MODULE MCSite -------------------------------
(* The bounds of Site are values of its configurations.                    *)
EXTENDS Site
=============================================================================
