------------------------------ MODULE MCPosting ------------------------------
(* The instance of Dunning that TLC checks for liveness: the daily run     *)
(* overlaps nothing else.                                                  *)
EXTENDS Dunning

(* The default policy with one reminder for its four.                      *)
MCPolicy == <<"remind", "escalate", "abandon">>
=============================================================================
