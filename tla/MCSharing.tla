------------------------------- MODULE MCSharing -------------------------------
(* Two clients who may send the same feedback or share at the same time.        *)
EXTENDS FeedbackSharing

CONSTANT p1
Owner == [b \in Subjects |-> p1]
===============================================================================
