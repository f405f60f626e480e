---------------------------- MODULE RankRefresh ----------------------------
(***************************************************************************)
(* What the request loop of the DRAM controller and the refresh loops of   *)
(* its ranks promise each other (gem5/src/mem/dram_ctrl.cc).  DRAMCtrl,    *)
(* which has the queues and no time, and DRAMTiming, which has time and no *)
(* queues, both implement this specification.                              *)
(***************************************************************************)
CONSTANT Ranks

VARIABLES refreshState, nextReqEvent, activeRank

vars == <<refreshState, nextReqEvent, activeRank>>

isAvailable(r) == refreshState[r] = "REF_IDLE"

\* A request is queued, or the controller is told to drain.
Request ==
  /\ ~nextReqEvent /\ nextReqEvent' = TRUE
  /\ UNCHANGED <<refreshState, activeRank>>

\* The request event lets the ranks that waited for it go on, and then accesses
\* an available rank, or only turns the bus, or pauses.
processNextReqEvent ==
  /\ nextReqEvent
  /\ refreshState' = [r \in Ranks |-> IF refreshState[r] = "REF_DRAIN"
                                        THEN "REF_PRE" ELSE refreshState[r]]
  /\ \/ \E r \in Ranks : isAvailable(r) /\ activeRank' = r /\ nextReqEvent' = TRUE
     \/ activeRank' = activeRank /\ nextReqEvent' \in BOOLEAN

\* A refresh falls due: only the rank of the last access waits, and only while
\* the request event is scheduled.
refreshDue(r) ==
  /\ refreshState[r] = "REF_IDLE"
  /\ refreshState' = [refreshState EXCEPT ![r] =
       IF r = activeRank /\ nextReqEvent THEN "REF_DRAIN" ELSE "REF_RUN"]
  /\ UNCHANGED <<nextReqEvent, activeRank>>

refreshPrecharge(r) ==
  /\ refreshState[r] = "REF_PRE"
  /\ refreshState' = [refreshState EXCEPT ![r] = "REF_RUN"]
  /\ UNCHANGED <<nextReqEvent, activeRank>>

\* The end of a refresh starts the request loop again.
refreshDone(r) ==
  /\ refreshState[r] = "REF_RUN"
  /\ refreshState' = [refreshState EXCEPT ![r] = "REF_IDLE"]
  /\ nextReqEvent' = TRUE
  /\ UNCHANGED activeRank

Init ==
  /\ refreshState = [r \in Ranks |-> "REF_IDLE"]
  /\ nextReqEvent = FALSE
  /\ activeRank \in Ranks

Next ==
  \/ Request
  \/ processNextReqEvent
  \/ \E r \in Ranks : refreshDue(r) \/ refreshPrecharge(r) \/ refreshDone(r)

Spec == Init /\ [][Next]_vars

=============================================================================
