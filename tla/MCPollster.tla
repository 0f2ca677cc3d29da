----------------------------- MODULE MCPollster -----------------------------
(* Instances of Pollster, behind Notify, for TLC. *)
EXTENDS Notify, TLC

CONSTANTS t1, t2, t3, s1, s2

\* The topics t1 and t2 query the same feed, t3 another.
SameFeed == {{t1, t2} \cap Topic, {t3} \cap Topic} \ {{}}

SubscriberSymmetry == Permutations(Subscriber)
=============================================================================
