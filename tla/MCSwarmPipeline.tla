-------------------------- MODULE MCSwarmPipeline --------------------------
(* Instances of SwarmPipeline for TLC: a name (level 1) and a diagnosis      *)
(* (level 3, tagged health); a text of two facts, one harmless and one on a *)
(* topic; a constitution that blocks the topic and one that blocks nothing;  *)
(* a caller that brings both memories along and one that calls a diagnosis  *)
(* permitted and a fact compliant.                                          *)
EXTENDS SwarmPipeline, TLC

CONSTANTS ollama, cloud, name, diagnosis, health, note, harmless, delicate, topic

MCProviders == {ollama, cloud}
MCHealth == {health}
MCMemories == {name, diagnosis}
MCStored == name :> 1 @@ diagnosis :> 3
MCJudgement == name :> [level |-> 1, tags |-> {}, source |-> note] @@
               diagnosis :> [level |-> 3, tags |-> {health}, source |-> note]
MCFacts == {harmless, delicate, Whole}
MCLong == {delicate, harmless}
MCFactLevel == harmless :> 1 @@ delicate :> 2 @@ Whole :> 2
MCTopicOf == harmless :> {} @@ delicate :> {topic} @@ Whole :> {topic}
MCConstitutions == {[blocked |-> {}, cloud |-> 1, allowed |-> {ollama}],
                    [blocked |-> {topic}, cloud |-> 3, allowed |-> {}]}
MCPipelines == {<<"ADDON", <<"governance", "accessor", "governance">>>>,
                <<"STORE", <<"policy", "maker">>>>}
MCContexts == {NoContext, [NoContext EXCEPT !.memories = MCMemories],
               [NoContext EXCEPT !.permitted = {diagnosis}, !.text = {diagnosis},
                                 !.compliant = {delicate}, !.level = 3]}
=============================================================================
