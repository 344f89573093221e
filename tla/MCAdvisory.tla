----------------------------- MODULE MCAdvisory -----------------------------
(* Two fixes OSV names one after the other and an answer without advisory.  *)
EXTENDS Advisory

MCAnswers == {"no_vulns", "fixed_in_2", "fixed_in_3"}
MCUsable  == {"fixed_in_2", "fixed_in_3"}

=============================================================================
