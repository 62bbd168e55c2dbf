---------------------------- MODULE MCAgentLoop ----------------------------
(* Small batches of calls and the configurations of the loop for TLC. *)
EXTENDS AgentLoop

MCBatches == {<<"read", "read", "read">>, <<"process", "read">>, <<"bridge", "edit", "bridge">>,
              <<"read", "bridge", "read">>, <<"bridge", "bridge">>, <<"command", "control">>, <<"network">>, <<"final">>}

MCConfigs == [mode : {"collect", "stream"}, contract : BOOLEAN]

MCReviewModes == {"DefaultForTrust", "ModelThenHostFallback", "Required", "HostDecisionOnly",
                  "FullyTrusted", "DenyAll"}
=============================================================================
