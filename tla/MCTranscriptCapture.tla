------------------------ MODULE MCTranscriptCapture ------------------------
(* Two suites of TranscriptCapture for TLC, told apart by the initial state: *)
(* in one only the hook and the worker run, in the other session_end and     *)
(* replay_job as well, over a shorter transcript, and a slow worker may lose *)
(* its row to a recovery.                                                    *)
EXTENDS TranscriptCapture, TLC

CONSTANT ForegroundLines, ForegroundCalls

VARIABLE suite

mcVars == <<vars, suite>>

\* No recovery takes the row from an actor that is at work on it.
HandsOff ==
    \A a \in Actors : ev[a] # 0 /\ pc'[a] = pc[a] => jobs'[ev[a]] = jobs[ev[a]]

\* A merge commits in part when no other has, and its first commit has at most
\* the first line of the slice.
OneSplit ==
    split' # split => /\ split = {}
                      /\ \A n \in merged' \ merged, m \in split' : n <= m

\* The longer the transcript, the fewer kinds of trouble, down to one.
Troubles == torn + compactions + faults + (IF split = {} THEN 0 ELSE 1)
FewTroubles(longest) == written + Troubles <= longest + 1

Bounded ==
    IF suite = "background"
    THEN /\ HandsOff /\ FewTroubles(MaxLines)'
         /\ split' = {} /\ \A e \in Enders : pc'[e] = "idle"
    ELSE /\ OneSplit /\ FewTroubles(ForegroundLines)'
         /\ written' <= ForegroundLines /\ calls' <= ForegroundCalls /\ torn' = 0

MCInit == Init /\ suite \in {"background", "foreground"}
MCNext == Next /\ Bounded /\ UNCHANGED suite
MCSpec == MCInit /\ [][MCNext]_mcVars

=============================================================================
