------------------------------ MODULE MCServices ------------------------------
(***************************************************************************)
(* The services around the client's calls, for TLC: event subscriptions,   *)
(* fee bumps, batches, transactions signed outside the client, multisig    *)
(* collectors, the contract spec, the registries of request queues and the *)
(* rules of a will; the pure helpers come with MCHelpers.  The services    *)
(* share no state: a behaviour is one of a single part, named by `part`,   *)
(* the others stay in one initial state.                                   *)
(***************************************************************************)
EXTENDS EventSubscription, FeeBump, BatchQueue, ContractSpec, SharedQueues,
        WillRules, BatchCalls, MultisigCollector, MCHelpers

VARIABLE part

servicesVars == <<part, subVars, fbVars, bqVars, csVars, sqVars, wrVars,
                  bcVars, msVars>>

Wanted134 == {1, 3, 4}
PercentageLists ==
  {<<10000>>, <<3300, 3300, 3400>>, <<6000, 5000>>, <<10000, 0>>,
   <<2500, 2500, 2500, 2500>>}
FractionLists == PercentageLists \cup {<<5050, 4950>>}

(* calculateShares() splits a balance without rest, and as the contract does. *)
ASSUME SharesMirrorTheContract ==
  \A balance \in 0..250 :
    \A percentages \in {<<100>>, <<50, 50>>, <<33, 33, 34>>, <<1, 99>>, <<70, 7, 23>>} :
      LET shares == Shares(balance, percentages)
      IN /\ Sum(shares) = balance
         /\ \A i \in DOMAIN shares : shares[i] >= 0
         /\ shares = Distributed(balance, [i \in DOMAIN percentages |-> percentages[i] * Percent])

ServicesInit ==
  /\ part \in {"events", "fees", "batch", "spec", "queues", "will", "calls", "signatures"}
  /\ SubscriptionInit /\ FeeBumpInit /\ BatchInit
  /\ ContractSpecInit /\ SharedQueuesInit /\ WillRulesInit
  /\ BatchCallsInit /\ MultisigInit
  /\ part # "events" => socket = "none"
  /\ part # "fees" => \A b \in Bumps : option[b] = "nothing"
  /\ part # "batch" => policy = "stop"
  /\ part # "calls" => bcWallet = BcOurs
  /\ part # "will" => funded

(* One part moves, the others stay as they began. *)
ServicesNext ==
  /\ UNCHANGED part
  /\ \/ /\ part = "events" /\ SubscriptionNext
        /\ UNCHANGED <<fbVars, bqVars, csVars, sqVars, wrVars, bcVars, msVars>>
     \/ /\ part = "fees" /\ FeeBumpNext
        /\ UNCHANGED <<subVars, bqVars, csVars, sqVars, wrVars, bcVars, msVars>>
     \/ /\ part = "batch" /\ BatchNext
        /\ UNCHANGED <<subVars, fbVars, csVars, sqVars, wrVars, bcVars, msVars>>
     \/ /\ part = "spec" /\ ContractSpecNext
        /\ UNCHANGED <<subVars, fbVars, bqVars, sqVars, wrVars, bcVars, msVars>>
     \/ /\ part = "queues" /\ SharedQueuesNext
        /\ UNCHANGED <<subVars, fbVars, bqVars, csVars, wrVars, bcVars, msVars>>
     \/ /\ part = "will" /\ WillRulesNext
        /\ UNCHANGED <<subVars, fbVars, bqVars, csVars, sqVars, bcVars, msVars>>
     \/ /\ part = "calls" /\ BatchCallsNext
        /\ UNCHANGED <<subVars, fbVars, bqVars, csVars, sqVars, wrVars, msVars>>
     \/ /\ part = "signatures" /\ MultisigNext
        /\ UNCHANGED <<subVars, fbVars, bqVars, csVars, sqVars, wrVars, bcVars>>

(* The fairness of EventSubscription; in a behaviour of another part its   *)
(* variables do not change and nothing is owed.                            *)
ServicesSpec ==
  /\ ServicesInit /\ [][ServicesNext]_servicesVars
  /\ part = "events" => SubscriptionFairness /\ ProvidersAnswer

(* A single part. *)
WillSpec == ServicesInit /\ part = "will" /\ [][ServicesNext]_servicesVars
=============================================================================
