------------------------------- MODULE MCAgent -------------------------------
(* A planner whose chain concludes early or not, a reviewer that runs on    *)
(* after a conclusion, and two coordinators: a desk with a rule for a        *)
(* specialist that nobody registered, and an annex without a fallback.  The  *)
(* reviewer may delegate to the planner through the annex, and the planner   *)
(* to a scout.                                                               *)
EXTENDS Agent

MCChain == [planner |-> <<"recon", "graph">>, reviewer |-> <<"recon", "judge">>, scout |-> <<"recon">>]
MCShort == [planner |-> TRUE, reviewer |-> FALSE, scout |-> FALSE]
MCNeeds == [recon |-> {}, graph |-> {"fanout"}, judge |-> {"fanout"}]

MCRules == [desk |-> << [agent |-> "absent", signals |-> {"fanout"}],
                        [agent |-> "planner", signals |-> {"fanout"}] >>,
            annex |-> << [agent |-> "planner", signals |-> {"fanout"}] >>]
MCSpecialists == [desk |-> {"planner", "reviewer"}, annex |-> {"planner"}]
MCFallback == [desk |-> "reviewer", annex |-> NoAgent]

MCDeltas == {-1, 2}
MCGiven == {-1, 2}
MCAllowed == [planner |-> {"scout"}, scout |-> {}, reviewer |-> {"annex"}]
=============================================================================
