---------------------------- MODULE MCChannelRelay ----------------------------
(* Instances of ChannelRelay for TLC.                                      *)
EXTENDS ChannelRelay

\* Two groups: the first with two priorities, the lower one a channel of weight
\* 0 alone, the second with one channel.
CONSTANTS a1, a2, a3, b1, A, B
MCAutoGroups == <<A, B>>
MCGroup == [c \in {a1, a2, b1} |-> IF c = b1 THEN B ELSE A]
MCPriority == [c \in {a1, a2, b1} |-> IF c = a1 THEN 2 ELSE 1]
MCWeight == [c \in {a1, a2, b1} |-> IF c = a2 THEN 0 ELSE 1]

\* The first group with one priority more than RetryTimes + 1.
DeepGroup == [c \in {a1, a2, a3, b1} |-> IF c = b1 THEN B ELSE A]
DeepPriority == [c \in {a1, a2, a3, b1} |-> CASE c = a1 -> 3 [] c = a2 -> 2 [] OTHER -> 1]
DeepWeight == [c \in {a1, a2, a3, b1} |-> 1]
===============================================================================
