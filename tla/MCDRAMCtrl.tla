---------------------------- MODULE MCDRAMCtrl ----------------------------
(* Small instances of DRAMCtrl: two ranks, two half-burst units. *)
EXTENDS DRAMCtrl, TLC

CONSTANTS b0, b1, u0, u1, r0, r1

MCRankOf == (b0 :> 0) @@ (b1 :> 1)
Full(b)  == [burst |-> b, bytes |-> {u0, u1}]
Part(b)  == [burst |-> b, bytes |-> {u0}]
MCSpans  == {<<Part(b0)>>, <<Full(b0), Full(b1)>>}
LiveSpans == {<<Full(b1)>>}

\* The peers are asked to drain as well: they send nothing new until the
\* controller resumes.
QuietNext ==
  \/ /\ drainState # "Draining"
     /\ \E pkt \in Packet : Send(pkt)
  \/ Resend
  \/ processRespondEvent
  \/ processNextReqEvent
  \/ \E r \in Ranks : refreshDue(r) \/ refreshPrecharge(r) \/ refreshDone(r)
  \/ drain
  \/ drainResume
QuietSpec == Init /\ [][QuietNext]_vars /\ Fairness

\* Draining ends, refreshes and refused packets notwithstanding: signalDrainDone
\* is reached from processRespondEvent or processNextReqEvent.
DrainCompletes == drainState = "Draining" ~> drainState = "Drained"

Symmetry == Permutations({r0, r1})

===========================================================================
