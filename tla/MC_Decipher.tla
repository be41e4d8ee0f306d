----------------------------- MODULE MC_Decipher -----------------------------
(* A player with both functions; one with a sig function without its helper *)
(* and an n function that only the discovery finds; one whose candidate is  *)
(* implausible and that has no other.                                       *)
EXTENDS Decipher

CONSTANTS plain, hidden, odd

MCScripts == {plain, hidden, odd}
MCHash == [p \in MCScripts |-> p]
MCSigFunction == [p \in MCScripts |-> IF p = plain THEN "whole"
                                     ELSE IF p = hidden THEN "bare" ELSE "missing"]
MCNFunction == [p \in MCScripts |-> IF p = plain THEN "plausible"
                                   ELSE IF p = hidden THEN "missing" ELSE "implausible"]
MCDiscovery == [p \in MCScripts |-> p # odd]
MCMemLimits == <<64, 32, 16>>
=============================================================================
