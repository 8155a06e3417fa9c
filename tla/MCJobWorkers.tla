---------------------------- MODULE MCJobWorkers ----------------------------
(***************************************************************************)
(* Instances of JobWorkers for TLC.                                        *)
(*                                                                         *)
(* Visible leaves out of the states TLC tells apart what nothing reads any *)
(* more and no property looks at:                                          *)
(*   - with a mirror that does not lag, a job that has left a status is    *)
(*     listed by it no more, and what a worker remembers of it is read only*)
(*     by the polls that are still at it;                                  *)
(*   - a submission is sent once, so its confirmation is not asked for;    *)
(*   - a publication that is asked for too late will be refused.           *)
(***************************************************************************)
EXTENDS JobWorkers, TLC

ASSUME ViewIsSound == ~MirrorLags

Polls == Permutations(ProviderPolls)

NotOpen ==
    {j \in Jobs : /\ chain[j] # "open"
                  /\ \A p \in ProviderPolls : poll[p].stage \notin OpenStages}

NotFunded ==
    {j \in Jobs : /\ Order(chain[j]) > Order("funded")
                  /\ \A p \in ProviderPolls : poll[p].job # j /\ j \notin poll[p].todo}

NotSubmitted ==
    {j \in Jobs : /\ Order(chain[j]) > Order("submitted")
                  /\ \A p \in EvaluatorPolls : evalPoll[p].job # j /\ j \notin evalPoll[p].todo}

Late(j, state) ==
    IF state = "asked" /\ Order(chain[j]) > Order("funded") THEN "refused" ELSE state

Submits == {Submit(j, h) : j \in Jobs, h \in Hashes}

SetBudgets == {SetBudget(j) : j \in NotOpen}

Visible ==
    <<chainVars, [w \in Writes \ SetBudgets |-> tx[w]], lock, open, confirmed \ (SetBudgets \cup Submits),
      [j \in Jobs |-> [h \in Hashes |-> Late(j, request[j][h])]], deliverable, evaluationVars, crashes,
      up, activeJob, processedOpen \ NotOpen, processedFunded \ NotFunded,
      [j \in Jobs \ NotFunded |-> <<retries[j], runs[j]>>], poll,
      evalUp, activeEval, processedIds \ NotSubmitted,
      [j \in Jobs \ NotSubmitted |-> <<evalRetries[j], verdicts[j]>>], evalPoll>>
=============================================================================
