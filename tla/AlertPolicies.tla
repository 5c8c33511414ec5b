--------------------------- MODULE AlertPolicies ---------------------------
(***************************************************************************)
(* Which policy an alert is treated by, and by which key it is told from   *)
(* the others: the table escalation_policies as bootstrap seeds it, the    *)
(* search for the best policy of a seller, an environment and a type of    *)
(* event, and the keys that the events of the three sources get.           *)
(***************************************************************************)
EXTENDS Integers, FiniteSets, Sequences, SequencesExt

CONSTANTS
    DefaultPolicies,   \* DEFAULT_POLICIES, a sequence of rows without scope
    Fallback,          \* the terms of get_system_default_policy
    None               \* a NULL column

(* A row: whom it is for, whether it is enabled, and its terms.            *)
Row(id, event, seller, environment, enabled, terms) ==
    [id |-> id, event |-> event, seller |-> seller, environment |-> environment,
     enabled |-> enabled, terms |-> terms]

(* upsert: one row per policy_id, overwritten as a whole.                  *)
Upsert(table, p) ==
    IF \E i \in DOMAIN table : table[i].id = p.id
    THEN [i \in DOMAIN table |-> IF table[i].id = p.id THEN p ELSE table[i]]
    ELSE Append(table, p)

(* The defaults are seeded when no policy is enabled, so that defaults     *)
(* which were all disabled are enabled again.                              *)
Seeded(table) ==
    IF \E i \in DOMAIN table : table[i].enabled THEN table
    ELSE FoldLeft(Upsert, table, DefaultPolicies)

ForEvent(table, event) == SelectSeq(table, LAMBDA p : p.enabled /\ p.event = event)

First(rows) == IF rows = <<>> THEN None ELSE Head(rows)

(* Four passes over the rows of the event: for both, for the environment,  *)
(* for the seller, for all.                                                *)
Best(table, seller, environment, event) ==
    LET rows == ForEvent(table, event)
        For(s, e) == SelectSeq(rows, LAMBDA p : p.seller = s /\ p.environment = e)
    IN First(For(seller, environment) \o For(None, environment)
                \o For(seller, None) \o For(None, None))

(* Without a row, the default in memory, and without one the fallback.     *)
Resolve(table, seller, environment, event) ==
    LET row == Best(table, seller, environment, event)
        default == First(ForEvent(DefaultPolicies, event))
    IN CASE row # None                      -> row.terms
         [] row = None /\ default # None    -> default.terms
         [] OTHER                           -> Fallback

-----------------------------------------------------------------------------
(* The keys.  A failed job of the log of notifications and the job run     *)
(* itself get one key, so that they make one alert.                        *)
Key(event, seller, environment, sku, logical) ==
    [event |-> event, seller |-> seller, environment |-> environment, sku |-> sku, logical |-> logical]

JobRunKey(run) == Key("scheduled_job_failed", run.seller, run.environment, None, run.job)

HistoryKey(history) ==
    Key(history.event, history.seller, history.environment, history.sku,
        CASE history.job # None                           -> history.job
          [] history.job = None /\ history.check # None   -> history.check
          [] history.job = None /\ history.check = None /\ history.sku # None -> history.sku
          [] OTHER                                        -> history.id)

MonitoringKey(event) == Key(event.event, event.seller, event.environment, event.sku, event.sku)
=============================================================================
