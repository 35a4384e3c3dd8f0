---------------------------- MODULE MCSiblingBus ----------------------------
(* Two branches; the limits are small enough to be reached.                *)
EXTENDS SiblingBus, TLC

CONSTANTS b1, b2, topicA, topicB

MCBranch == {b1, b2}
MCTopic == {topicA, topicB}
=============================================================================
