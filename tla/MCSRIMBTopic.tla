---------------------------- MODULE MCSRIMBTopic ----------------------------
(***************************************************************************)
(* SRIMBTopic for TLC: two publishers, a polling task, and two work items  *)
(* on two work queues, so that every pair of calls can overlap.  Each      *)
(* publisher has a message of its own, which shows whose words a reader    *)
(* copied.                                                                 *)
(***************************************************************************)
EXTENDS SRIMBTopic

MCPublishers == {1, 2}
MCData       == {<<p, p>> : p \in MCPublishers}
MCNoData     == <<0, 0>>

\* Every queue has an item.
MCQueueOf == CHOOSE f \in [Items -> Queues] : \A q \in Queues : \E w \in Items : f[w] = q

MCNext == Next /\ \A p \in MCPublishers : msg'[p] \in {MCNoData, <<p, p>>}

\* Nobody is obliged to publish, so the fairness is that of fewer publishes.
MCSpec == Init /\ [][MCNext]_vars /\ Fairness
=============================================================================
