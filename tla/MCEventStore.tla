---------------------------- MODULE MCEventStore ----------------------------
(* A small project for EventStore: a hard rule, the same rule as a dead end    *)
(* and as an abandoned approach, three wordings of one decision, a thread and  *)
(* a handoff, a blocked component with a dependent, and a harness message.     *)
EXTENDS EventStore, TLC

CONSTANTS A, B,   \* two sessions
          m1, m2  \* two processes
Symmetric == Permutations(Sessions) \cup Permutations(Mergers)

StatementTypeOf ==
    [rule    |-> "CONSTRAINT_HARD",    deadEnd |-> "APPROACH_ABANDONED_DO_NOT_RETRY",
     dropped |-> "APPROACH_ABANDONED", choice  |-> "DECISION",
     echo    |-> "DECISION",           change  |-> "DECISION",
     doing   |-> "THREAD_OPEN",        handoff |-> "THREAD_OPEN",
     later   |-> "THREAD_OPEN",
     blocked |-> "COMPONENT_STATUS",   user    |-> "COMPONENT_STATUS",
     review  |-> "COMPONENT_STATUS",   noise   |-> "THREAD_OPEN"]

AllStatements == DOMAIN StatementTypeOf

StatementTrait ==
    [x \in AllStatements |->
        CASE x = "noise" -> "boilerplate" [] x = "doing" -> "instruction"
          [] x = "deadEnd" -> "subject_less" [] OTHER -> "plain"]

OverlapPairs == {{"rule", "deadEnd"}, {"rule", "dropped"}, {"deadEnd", "dropped"},
                 {"choice", "echo"}, {"choice", "change"}}
SubjectPairs == {{"rule", "choice"}, {"echo", "change"}}
EchoPairs    == {{"choice", "echo"}}

BlockedCascade == {[of |-> "blocked", dependent |-> "user", adds |-> "review"]}

Says(x, a) == [stmt |-> x, auth |-> a]
DecisionBatches ==
    {<<Says("noise", "user_stated")>>,
     <<Says("choice", "inferred_from_code")>>,
     <<Says("choice", "user_stated"), Says("change", "assistant_decided")>>,
     <<Says("echo", "assistant_decided"), Says("rule", "user_stated"), Says("choice", "user_stated")>>,
     <<Says("change", "assistant_decided")>>}
DeadEndBatches ==
    {<<Says("deadEnd", "assistant_decided"), Says("dropped", "assistant_decided")>>,
     <<Says("dropped", "user_stated"), Says("rule", "assistant_decided")>>,
     <<Says("rule", "user_stated"), Says("choice", "user_stated")>>,
     <<>>}
ThreadBatches ==
    {<<Says("doing", "user_stated"), Says("handoff", "user_stated")>>,
     <<Says("doing", "assistant_decided")>>,
     <<Says("later", "assistant_decided")>>,
     <<Says("user", "assistant_decided"), Says("blocked", "assistant_decided")>>}

Topics == {DecisionBatches, DeadEndBatches, ThreadBatches}
AllBatches == UNION Topics

\* One run of the store keeps to one topic, and captures do not run far ahead.
Focused ==
    /\ \E topic \in Topics : \A e \in DOMAIN evidence : evidence[e].cands \in topic
    /\ Len(evidence) <= calls + 1
=============================================================================
