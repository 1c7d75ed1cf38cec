-------------------------------- MODULE MCApi --------------------------------
(* Instances of Api for TLC.  Its properties are temporal, so no symmetry. *)
EXTENDS Api

MCSize == {-1, 1}

(* The agenda, the quota and the login counters share nothing but the      *)
(* requests and tokens: a run that has files has no events, and at most    *)
(* one file while a failure is counted.                                    *)
OneAtATime ==
    \A u \in Email :
        LET files == MapThenSumSet(LAMBDA s : rows[u][s], Size) IN
        /\ (\E v \in Event : owner[v] # NULL) => files = 0
        /\ fails[u] > 0 => files <= 1

(* One size past the checks is enough to tell that it counts. *)
LittleUnchecked == \A u \in Email : unchecked[u] <= 1
==============================================================================
