---------------------------- MODULE MC_Priority ----------------------------
(* Instances of PriorityControl for TLC: one window with several answers and *)
(* settings, two windows of two chats for one row of the registry, and two   *)
(* windows of one chat.                                                      *)
EXTENDS PriorityControl, TLC

TwoChats == "w1" :> "a" @@ "w2" :> "b" @@ "w3" :> "a"

OneOrTwoWindows ==
    {"w1"}       :> [setting |-> {0, 2}, busy |-> BOOLEAN, sequence |-> 3, answers |-> 2]
 @@ {"w1", "w2"} :> [setting |-> {2}, busy |-> {FALSE}, sequence |-> 1, answers |-> 1]
 @@ {"w1", "w3"} :> [setting |-> {2}, busy |-> {FALSE}, sequence |-> 1, answers |-> 1]
=============================================================================
