--------------------------- MODULE MCModelTraining ---------------------------
(* Datasets and manifests for TLC.                                         *)
EXTENDS ModelTraining

\* 20 rows and more, with every ratio of the classes that matters.
MCRows(n, positives) ==
    [i \in 1..n |-> [label |-> IF i <= positives THEN 1 ELSE 0,
                     time  |-> (i * 7) % 13, group |-> (i * i) % 5]]

Contract(by, rows, columns) == [by |-> by, rows |-> rows, columns |-> columns]

MCContracts ==
    {Contract("timestamp", MCRows(20, 5), "flows"),
     Contract("group", MCRows(23, 9), "flows"),
     Contract("none", MCRows(20, 2), "packets"),
     Contract("none", MCRows(21, 13), "flows"),
     Contract("none", MCRows(26, 11), "flows"),
     Contract("none", MCRows(19, 9), "flows"),
     Contract("none", MCRows(20, 0), "flows")}

\* int(11 * (15 / 11)) is 14 in double precision.
MCBelow == {<<15, 11, 11>>}
MCWidth == [flows |-> 17, packets |-> 17, lab |-> 60]
MCTrained == <<"xgboost", "lstm", "fft", "isolation_forest">>
MCTrainedInLab == <<"xgboost", "lstm", "isolation_forest", "fft">>
MCPackageSets == {{"xgboost", "lstm", "isolation_forest"}, {"xgboost"}}
=============================================================================
