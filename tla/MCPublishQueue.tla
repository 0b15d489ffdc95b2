---------------------------- MODULE MCPublishQueue ----------------------------
(* Model values for the run of PublishQueue.                               *)
EXTENDS PublishQueue
CONSTANTS ann, bob
MCOwner == [j \in Jobs |-> ann]
===============================================================================
