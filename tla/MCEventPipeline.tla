---------------------------- MODULE MCEventPipeline ----------------------------
(* Instances of EventPipeline for TLC: two events of one settlement on the *)
(* two topics of their types, or on one topic.                             *)
EXTENDS EventPipeline

CONSTANTS created, approved, p1, p2, m1, m2

MCEvents == 1 .. 2
MCTopics == {created, approved}
MCTopicOf == <<created, approved>>
TwoPublishers == {p1, p2}
OnePublisher == {p1}
TwoMembers == {m1, m2}
OneMember == {m1}
===============================================================================
