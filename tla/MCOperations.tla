---------------------------- MODULE MCOperations ----------------------------
(***************************************************************************)
(* Incidents, operations policies, learning with change management,        *)
(* notification, the cost of an item, and sellers with their environments, *)
(* for TLC.  What one of the six needs of another is a constant or an      *)
(* input of it, so that each is explored on its own: the first state       *)
(* chooses which.                                                          *)
(***************************************************************************)
EXTENDS Integers, Sequences

CONSTANTS Signals, MaxIncidents, Requests, Actions, MaxPolicies, Keys, MaxVersions,
    Processes, EventTypes, Profile, MaxNow,
    Components, MaxConditions, MaxRules, MaxOptions,
    Sellers, Environments, MaxBindings, None

VARIABLES focus,
    hour, incidents,
    policies, requests,
    record, recommendation, proposal, versions,
    minute, registered, last_dispatched, history, accepted, batch,
    stage, mode, search, attempted, detail, offered, selected, quote,
    type, enabled, bindings, call

Inc == INSTANCE Incident WITH now <- hour
Pol == INSTANCE OpsPolicy
Chg == INSTANCE Change
Ntf == INSTANCE Notification WITH now <- minute
Cst == INSTANCE Costing
Slr == INSTANCE SellerEnv
Eff == INSTANCE PolicyEffect
Mch == INSTANCE PolicyMachine WITH PageSize <- 2
Pay == INSTANCE PayoutFees

incidentVars == <<hour, incidents>>
policyVars == <<policies, requests>>
changeVars == <<record, recommendation, proposal, versions>>
notificationVars == <<minute, registered, last_dispatched, history, accepted, batch>>
costingVars == <<stage, mode, search, attempted, detail, offered, selected, quote>>
sellerVars == <<type, enabled, bindings, call>>

vars == <<focus, incidentVars, policyVars, changeVars, notificationVars, costingVars, sellerVars>>

Init ==
    /\ focus \in {"incident", "policy", "change", "notification", "costing", "seller"}
    /\ Inc!Init /\ Pol!Init /\ Chg!Init /\ Ntf!Init /\ Cst!Init /\ Slr!Init
    /\ registered = {"console"} \/ focus = "notification"
    /\ (mode = "balanced" /\ search = None) \/ focus = "costing"
    /\ type = [e \in Environments |-> "sandbox"] \/ focus = "seller"

Next ==
    /\ UNCHANGED focus
    /\ \/ /\ focus = "incident" /\ Inc!Next
          /\ UNCHANGED <<policyVars, changeVars, notificationVars, costingVars, sellerVars>>
       \/ /\ focus = "policy" /\ Pol!Next
          /\ UNCHANGED <<incidentVars, changeVars, notificationVars, costingVars, sellerVars>>
       \/ /\ focus = "change" /\ Chg!Next
          /\ UNCHANGED <<incidentVars, policyVars, notificationVars, costingVars, sellerVars>>
       \/ /\ focus = "notification" /\ Ntf!Next
          /\ UNCHANGED <<incidentVars, policyVars, changeVars, costingVars, sellerVars>>
       \/ /\ focus = "costing" /\ Cst!Next
          /\ UNCHANGED <<incidentVars, policyVars, changeVars, notificationVars, sellerVars>>
       \/ /\ focus = "seller" /\ Slr!Next
          /\ UNCHANGED <<incidentVars, policyVars, changeVars, notificationVars, costingVars>>

Spec == Init /\ [][Next]_vars

-----------------------------------------------------------------------------
(* The effect of policies, on all tables of two active ones.               *)
SomePolicies ==
    {Eff!Policy(scope, target, action, priority, None) :
         scope \in {"global", "environment", "seller"}, target \in Sellers \cup Environments,
         action \in {"block_live_execution", "environment_safe_mode", "pause_handoff"},
         priority \in {50, 70}}

Tables == {<<p, q>> : p, q \in SomePolicies}

Stops(p) == p.action \in {"block_live_execution", "environment_safe_mode"}

(* Policies stop a seller only if one that covers it does, and one that    *)
(* does is only lifted by a policy of the same scope and no less priority. *)
ASSUME BlockStandsUnlessOutranked ==
    \A active \in Tables, seller \in Sellers, environment \in Environments :
        LET covering == {i \in DOMAIN active : Eff!Covers(active[i], seller, environment)}
            live == Eff!Effective(active, seller, environment).live_execution_allowed
        IN  /\ ~live => \E i \in covering : Stops(active[i])
            /\ live => \A i \in covering : Stops(active[i]) =>
                   \E j \in covering : /\ ~Stops(active[j])
                                       /\ active[j].scope = active[i].scope
                                       /\ active[j].priority >= active[i].priority

(* The order by precedence and the choice of the policy that counts agree. *)
ASSUME TopComesFirst ==
    \A active \in Tables, scope \in {"global", "environment", "seller"},
       seller \in Sellers, environment \in Environments :
        LET ofScope == SelectSeq(Eff!ByPrecedence(active),
                           LAMBDA p : p.scope = scope /\ Eff!Covers(p, seller, environment))
        IN  Eff!Top(active, scope, seller, environment)
                = IF ofScope = <<>> THEN <<>> ELSE <<Head(ofScope)>>

(* But a block made by hand is lifted by any policy made of a candidate,   *)
(* though the service says that deny-first actions override everything.    *)
ASSUME HandBlockLifted ==
    \A seller \in Sellers, environment \in Environments :
        Eff!Effective(<<Eff!ByHand("seller", seller, "block_live_execution"),
                        Eff!FromCandidate(Eff!Detect("manual_alert", 3, seller, environment))>>,
                      seller, environment).live_execution_allowed

(* A critical incident with its enumerated severity makes a candidate that *)
(* only pauses the handoff; the tests give theirs as text.                 *)
ASSUME CriticalOnlyPauses ==
    \A seller \in Sellers, words \in {{}, {"system"}} :
        LET incident == [severity |-> "critical", text |-> FALSE, words |-> words,
                         seller |-> seller, environment |-> None]
        IN  Eff!FromIncident(incident).action = "pause_handoff"

(* A limit of the seller's is forgotten when a wider policy gives none.    *)
ASSUME WiderLimitForgets ==
    \A seller \in Sellers, environment \in Environments :
        Eff!Effective(<<Eff!Policy("seller", seller, "limit_concurrency", 50, 3),
                        Eff!Policy("global", None, "limit_concurrency", 50, None)>>,
                      seller, environment).concurrency_limit = 10

-----------------------------------------------------------------------------
(* The state machine of the policies and the requests of the console, on   *)
(* every policy, and the jobs, on every list of three.                     *)
MachinePolicies ==
    [strong : BOOLEAN, status : Pol!Status, approved_by : {None, "operator"},
     review_due : {None, 1}, applied_at : {None, 1}, released_at : {None, 1},
     effective_until : {None}, is_expired : {FALSE}]

(* A policy as the console's model has it.                                 *)
Seen(p) ==
    IF p = None THEN None
    ELSE [strong |-> p.strong, status |-> p.status, approved |-> p.approved_by # None,
          review_due |-> p.review_due # None, applied |-> p.applied_at # None,
          released |-> p.released_at # None, misread |-> FALSE]

(* A request of the console that nothing interrupts.                       *)
ByConsole(p, target, due) ==
    IF target \in Pol!Allowed[p.status] /\ (target = "approved" => Pol!Reviewable(p, due))
    THEN Pol!Stamped([p EXCEPT !.status = target], target, due)
    ELSE None

Dated(p, due) == IF due = "none" THEN p ELSE [p EXCEPT !.review_due = 1]

ByMachine(p, target, due) ==
    CASE target = "approved"  -> Mch!Approve(Dated(p, due), "operator")
      [] target = "active"    -> Mch!Activate(p, 1)
      [] target = "released"  -> Mch!Release(p, 1)
      [] target = "rejected"  -> Mch!Reject(p)
      [] target = "cancelled" -> Mch!Cancel(p)

(* The console has its own code for what the machine does.  A request that *)
(* nothing interrupts and whose date can be read does the same.            *)
ASSUME ConsoleFollowsMachine ==
    \A p \in MachinePolicies, target \in Pol!Routes, due \in {"none", "date"} :
        target = "approved" \/ due = "none"
            => ByConsole(Seen(p), target, due) = Seen(ByMachine(p, target, due))

(* With a date that cannot be read the console approves a strong policy    *)
(* that is then without one, as the machine never does.                    *)
ASSUME UnreadDateDiffers ==
    /\ \E p \in MachinePolicies :
           LET approved == ByConsole(Seen(p), "approved", "text")
           IN  approved # None /\ approved.strong /\ ~approved.review_due
    /\ \A p \in MachinePolicies :
           LET approved == Mch!Approve(p, "operator")
           IN  approved # None /\ approved.strong => approved.review_due # None

JobPolicies ==
    {[p EXCEPT !.effective_until = until] :
        p \in {q \in MachinePolicies : /\ q.status \in {"approved", "active"} /\ q.strong
                                       /\ q.approved_by # None /\ q.released_at = None
                                       /\ q.applied_at = None <=> q.status = "approved"},
        until \in {None, 1, 3}}

JobLists == {<<p, q, r>> : p, q, r \in JobPolicies}

Over(p, now) == p.status = "active" /\ p.effective_until # None /\ p.effective_until < now

(* The job expires as the machine would, only what is over, and all of it  *)
(* when the active policies fit on a page; a dry run foretells the run.    *)
ASSUME ExpiryIsSound ==
    \A list \in JobLists :
        LET run == Mch!Expiry(list, 2, FALSE)
            test == Mch!Expiry(list, 2, TRUE)
        IN  /\ test.reported = run.reported /\ test.policies = list
            /\ \A k \in DOMAIN list :
                   run.policies[k] = IF k \in run.reported THEN Mch!Expire(list[k])
                                     ELSE list[k]
            /\ \A k \in run.reported : Over(list[k], 2)
            /\ (\E k \in DOMAIN list : list[k].status # "active")
                   => \A k \in DOMAIN list : ~Over(run.policies[k], 2)

(* Otherwise a policy that is over stays active behind two newer ones that *)
(* have no end, however often the job runs.                                *)
ASSUME OldestNeverExpires ==
    \E list \in JobLists :
        Over(list[1], 2) /\ Mch!Expiry(list, 2, FALSE).policies = list

(* The scan for overdue reviews looks at approved policies: that a policy  *)
(* in force is to be reviewed, nobody is told.                             *)
ASSUME ActiveNotReviewed ==
    /\ \A list \in JobLists : \A k \in Mch!ReviewDueScan(list, 2) :
           list[k].status = "approved" /\ list[k].review_due = 1
    /\ \E list \in JobLists :
           /\ \A k \in DOMAIN list : list[k].review_due = 1
           /\ Mch!ReviewDueScan(list, 2) = {}

-----------------------------------------------------------------------------
(* The payout fee, on lists of three rules.                                *)
Asked == {<<>>, [conversion_required |-> TRUE], [provider |-> "p", same_country |-> FALSE]}

FeeRules ==
    {Pay!Rule(category, source, when, low, 10,
              [fixed |-> FALSE, amount |-> 5, least |-> None, most |-> None]) :
         category \in {"withdrawal", "conversion"},
         source \in {"account_specific_rule", "standard_pricing_master"},
         when \in Asked, low \in {None, 10}}

Lists ==
    {<<p, q, r>> : p, q \in {x \in FeeRules : x.source = "account_specific_rule"},
                   r \in {x \in FeeRules : x.source = "standard_pricing_master"}}

Sales ==
    {[provider |-> "p", gross |-> 1000, volume |-> volume, same_currency |-> TRUE,
      same_country |-> local, conversion_required |-> required] :
         volume \in {9, 10, 11}, local \in {TRUE, None}, required \in {TRUE, FALSE, None}}

(* The rule chosen for a category matches the sale, and no other one that  *)
(* does is of a better list, or of its list with more conditions.          *)
ASSUME MostSpecificChosen ==
    \A rules \in Lists, sale \in Sales :
        LET chosen == Pay!Chosen(rules, sale)
        IN  \A i \in DOMAIN rules :
                Pay!Matches(rules[i], sale) =>
                    /\ Pay!Matches(chosen[rules[i].category], sale)
                    /\ chosen[rules[i].category] = rules[i]
                       \/ Pay!Priority[chosen[rules[i].category].source] > Pay!Priority[rules[i].source]
                       \/ /\ chosen[rules[i].category].source = rules[i].source
                          /\ Pay!Conditions(chosen[rules[i].category]) >= Pay!Conditions(rules[i])

(* Outside of strict mode no sale is free of fees, and a conversion known  *)
(* to be required is charged.                                              *)
ASSUME NeverFree ==
    \A rules \in Lists, sale \in Sales :
        /\ Pay!Net(rules, sale, "balanced") < sale.gross
        /\ sale.conversion_required = TRUE => Pay!Fees(rules, sale, "balanced")["conversion"] > 0

-----------------------------------------------------------------------------
(* What is late stays late, whatever the operator does with an incident.   *)
BreachKept == Inc!BreachKept

(* An incident in hand past its resolution time is on the overdue list.    *)
LateListed == Inc!LateListed

(* A policy that took effect was approved, a strong one with a date.       *)
StrongReviewed == Pol!StrongReviewed

(* What is done to wider scopes does not reach one that has its own value.  *)
OverridesHold == Chg!OverridesHold

(* An alert is only ever kept back by one that got through.                *)
AlertSeen == Ntf!AlertSeen

(* The rule of the best list, then of the most conditions, sets a fee.     *)
SpecificRuleWins == Cst!SpecificRuleWins

(* A detail that is not asked would not have changed the shipping.         *)
SparedIsExact == Cst!SparedIsExact

(* A total that strict mode lets through rests on no guess.                *)
StrictHonest == Cst!StrictHonest

(* What a token request resolves is of types its seller was active in      *)
(* during it, and the doctor says so only of a seller whose token will be  *)
(* found.                                                                  *)
CredentialsTrue == Slr!CredentialsTrue
=============================================================================
