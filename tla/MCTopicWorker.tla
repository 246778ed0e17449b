---------------------------- MODULE MCTopicWorker ----------------------------
(* Instances of TopicWorker for TLC.                                        *)
EXTENDS TopicWorker, TLC

CONSTANTS g1, g2, w1, w2

\* Two workers share the one group.
SharedGroup == (w1 :> g1 @@ w2 :> g1)

\* A worker in each of two groups.
FanOut == (w1 :> g1 @@ w2 :> g2)
=============================================================================
