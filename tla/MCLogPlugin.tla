----------------------------- MODULE MCLogPlugin ---------------------------
(* One run with two containers; every back end with the types of Records   *)
(* it tells apart, and each way a server may be set up wrongly.            *)
EXTENDS LogPlugin

MCSetup(t, p, u, l) == [type |-> t, params |-> p, usable |-> u, legacy |-> l]

MCCases ==
    LET blob == MCSetup("blob", TRUE, TRUE, TRUE) IN
    {<<MCSetup(t, TRUE, TRUE, FALSE), "TaskRun">> : t \in {"loki", "splunk"}}
    \cup {<<blob, k>> : k \in {"TaskRun", "TaskRunV1Beta1", "Log", "PipelineRun", "CustomRun"}}
    \cup {<<MCSetup("blob", TRUE, TRUE, FALSE), "TaskRunV1Beta1">>,
          <<MCSetup("loki", TRUE, TRUE, FALSE), "CustomRun">>,
          <<MCSetup("loki", TRUE, TRUE, FALSE), "Log">>,
          <<MCSetup("splunk", TRUE, TRUE, FALSE), "Log">>,
          <<MCSetup("loki", FALSE, TRUE, FALSE), "Log">>,
          <<MCSetup("file", TRUE, TRUE, FALSE), "Log">>}
    \cup {<<MCSetup(t, TRUE, FALSE, FALSE), "Log">> : t \in {"loki", "blob", "splunk"}}
============================================================================
