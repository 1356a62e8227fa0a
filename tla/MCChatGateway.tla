--------------------------- MODULE MCChatGateway ---------------------------
(* Instances of ChatGateway for TLC: a name (level 1), an address (level 2), *)
(* a diagnosis (level 3, tagged health); one provider in the cloud with a    *)
(* key and one without; the shipped rules, alone and with a custom permit.  *)
EXTENDS ChatGateway, TLC

CONSTANTS ollama, cloud, keyless, name, address, diagnosis, health, finance, note

MCProviders == {ollama, cloud, keyless}
MCHealth == {health}
MCFinance == {finance}
MCMemories == {name, address, diagnosis}
MCStored == name :> 1 @@ address :> 2 @@ diagnosis :> 3
MCText == MCStored
MCTagsOf == name :> {} @@ address :> {} @@ diagnosis :> {health}
MCSourceOf == name :> note @@ address :> note @@ diagnosis :> note
MCConfigs == {[provider |-> ollama, keys |-> {}],
              [provider |-> keyless, keys |-> {cloud}]}
(* Two custom permits: one in the morning that outranks the shipped block,   *)
(* and one at any time that does not.                                       *)
MCMornings == [Scoped("address-mornings", 85, 2, 2, {}, {}, "PERMIT") EXCEPT !.end = 12]
MCAnyTime == Scoped("address-any-time", 60, 2, 2, {}, {}, "PERMIT")
MCCustomIds == {"address-mornings", "address-any-time"}
MCRuleFiles == {DefaultRules, Append(DefaultRules, MCMornings),
                Append(DefaultRules, MCAnyTime)}

MCSymmetry == Permutations(Chats)

(* One chat about all three memories; or two chats about the diagnosis, *)
(* with the shipped rules, no swarm, more answers and fewer changes.        *)
MCBound ==
    \/ (\E q \in Chats : pc[q] = "new") /\ Len(receipts) <= 1
    \/ /\ ~swarm /\ engine = LoadPolicies(DefaultRules)
       /\ \A q \in Chats : rules[q] \in {<<>>, engine}
       /\ Len(settings) <= 2
       /\ \A k \in 1..Len(receipts) : receipts[k].forTag # finance
       /\ \A q \in Chats : \A x \in {i.mem : i \in context[q]} \cup withheld[q] : x = diagnosis
=============================================================================
