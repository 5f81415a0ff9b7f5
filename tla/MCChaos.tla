------------------------------ MODULE MCChaos ------------------------------
(* Values for model-checking Chaos: an api whose health check calls its db, *)
(* on one of the two networks of the db.                                    *)
EXTENDS Chaos

MCNets == [api |-> {"front"}, db |-> {"back", "front"}]
MCNeeds == [api |-> {"db"}, db |-> {}]
MCAgenda ==
  {<< <<"db", "disconnect">>, <<"db", "pause">> >>,
   << <<"db", "latency">>, <<"api", "latency">> >>,
   << <<"api", "pause">> >>}
=============================================================================
