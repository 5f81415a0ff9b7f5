----------------------------- MODULE MCCollect -----------------------------
(* Values for model-checking Collect: an api that depends on its db.        *)
EXTENDS Collect

MCDepends == [api |-> {"db"}, db |-> {}]
Plain == [level |-> "other", key |-> "plain"]
MCLineKinds == [logs |-> {Plain}, blackbox |-> {Plain},
                incident |-> {[level |-> "error", key |-> "refused"], [level |-> "warn", key |-> "slow"]}]
MCMaxTicks == [logs |-> 2, blackbox |-> 1, incident |-> 2]
MCMaxHappen == [logs |-> 4, blackbox |-> 3, incident |-> 3]
=============================================================================
