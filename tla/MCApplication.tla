--------------------------- MODULE MCApplication ----------------------------
EXTENDS Application

CONSTANTS deduceInputs, getThermo, getGeo, calcPerf

MCStage  == <<deduceInputs, getThermo, getGeo, calcPerf>>
MCEnds   == <<deduceInputs, calcPerf>>
MCThread == {producer, consumer, server} \cup Stage
MCMutex  == {raw_mutex, bench_mutex}

(* RT_THREAD_PRIORITY_MAX is 32. *)
MCInitPriority ==
    [t \in Thread |-> CASE t = producer     -> 7
                        [] t = deduceInputs -> 12
                        [] t = getThermo    -> 13
                        [] t = getGeo       -> 14
                        [] t = calcPerf     -> 15
                        [] OTHER            -> 17]
=============================================================================
