--------------------------- MODULE ControlBridge ---------------------------
(***************************************************************************)
(* docker/bridge/main.py: what the agents in Docker ask for goes through a  *)
(* bridge that blocks, limits, screens and logs, and passes the rest to the  *)
(* host (routes/bridge.py, mcp_services/base.py, deps.py).                  *)
(*                                                                         *)
(* A handler of the bridge awaits nothing before it forwards, so a step      *)
(* takes a request in and answers or forwards it; what it sends is handled   *)
(* by the host at any later time, also when the bridge has given up on it    *)
(* or has died.  Edits and reloads of closedclaw.yaml come in between.      *)
(*                                                                         *)
(* A text is the set of the guardian's categories it matches; how it is      *)
(* redacted, and the events the bridge sends to the host's audit, which the  *)
(* host cannot store (routes/bridge.py:142), are left out.                  *)
(***************************************************************************)
EXTENDS SlidingWindow, Sequences

CONSTANTS
    Calls, Services, Operations, Texts,
    Configs,            \* contents of closedclaw.yaml
    Missing, Broken,    \* or no file; one that does not parse
    Supported,          \* SUPPORTED_OPERATIONS of the connector
    PerHour, PerDay, PerMinute, Hour, Day, Minute,
    MaxTime, MaxFaults, MaxEdits

BridgeAssumption ==
    /\ "connector" \notin Services
    /\ Hour \in Nat /\ Day \in Nat /\ Minute \in Nat /\ Hour <= Day
    /\ PerHour \in Nat /\ PerDay \in Nat /\ PerMinute \in Nat
    /\ MaxTime \in Nat /\ MaxFaults \in Nat /\ MaxEdits \in Nat

VARIABLES
    disk,       \* closedclaw.yaml
    config,     \* _config
    running,    \* the bridge is
    counters,   \* _rate_counters
    stage,      \* of each call: "new", "sent" to the host, "done"
    job,        \* what those that are forwarded ask for
    inbox,      \* calls on their way to the host
    answers,    \* calls the host has answered
    reached,    \* calls the host has handled
    times,      \* _request_times of the connector
    logged,     \* lines of the bridge's log
    lost,       \* the lines that could not be written
    passed,     \* what each limited service, and the connector, was let through
    now, faults, edits

bridge == <<disk, config, running, counters, edits>>
calls == <<stage, job>>
host == <<inbox, answers, reached, times>>
log == <<logged, lost, faults>>
vars == <<bridge, calls, host, log, passed, now>>

NoLimits == [s \in Services |-> {}]

(* load_config of no file, or an empty one: nothing is restricted.          *)
Unconfigured == [policy |-> [s \in Services |-> "none"], operations |-> {}, guardian |-> <<>>]

Init ==
    /\ disk \in Configs /\ config = Unconfigured /\ running = FALSE
    /\ counters = NoLimits /\ passed = [s \in Services \cup {"connector"} |-> {}]
    /\ stage = [c \in Calls |-> "new"] /\ job = [c \in Calls |-> <<"none">>]
    /\ inbox = {} /\ answers = {} /\ reached = {}
    /\ times = {}
    /\ logged = {} /\ lost = {}
    /\ now = 0 /\ faults = 0 /\ edits = 0

(* _audit_log, line after line.  One that cannot be written is given up;     *)
Log(c, lines) ==
    \/ /\ logged' = logged \cup {<<c, lines[i]>> : i \in DOMAIN lines}
       /\ UNCHANGED <<lost, faults>>
    \/ /\ faults < MaxFaults /\ faults' = faults + 1
       /\ \E n \in DOMAIN lines :
             /\ logged' = logged \cup {<<c, lines[i]>> : i \in DOMAIN lines \ {n}}
             /\ lost' = lost \cup {<<c, lines[n]>>}

(* but a directory that cannot be made ends the handler, and its request.    *)
BreaksOff(c, lines) ==
    /\ faults < MaxFaults /\ faults' = faults + 1
    /\ \E n \in DOMAIN lines :
          /\ logged' = logged \cup {<<c, lines[i]>> : i \in 1..(n - 1)}
          /\ lost' = lost \cup {<<c, lines[n]>>}

Done(c) == stage' = [stage EXCEPT ![c] = "done"]

(* track_all_requests adds its line to those of the handler that answers.    *)
End(c, lines) ==
    /\ Done(c)
    /\ \/ Log(c, Append(lines, "http_request"))
       \/ BreaksOff(c, Append(lines, "http_request"))

Asks(c) == running /\ stage[c] = "new"

Answer(c, lines) ==
    /\ Asks(c) /\ End(c, lines)
    /\ UNCHANGED <<job, host, passed, now>>

Forward(c, what, lines) ==
    /\ Asks(c)
    /\ \/ /\ Log(c, lines)
          /\ job' = [job EXCEPT ![c] = what]
          /\ stage' = [stage EXCEPT ![c] = "sent"]
          /\ inbox' = inbox \cup {c}
       \/ BreaksOff(c, lines) /\ Done(c) /\ UNCHANGED <<job, inbox>>
    /\ UNCHANGED <<answers, reached, times, now>>

-----------------------------------------------------------------------------
(* check_url, proxy_request.  A URL stands for the service whose domain it   *)
(* is in, for the web, or for the host's own addresses.                     *)
Urls == Services \cup {"web", "internal"}

Policy(u) == IF u \in Services THEN config.policy[u] ELSE "none"

CheckUrl(c, u) ==
    /\ Answer(c, IF Policy(u) = "none" THEN <<>> ELSE <<"url_check">>)
    /\ UNCHANGED bridge

BlockProxy(c, u) ==
    /\ Policy(u) = "block"
    /\ Answer(c, <<"proxy_blocked">>)
    /\ UNCHANGED bridge

(* A bug: the count of the day is that of the hour. *)
KeptForAnHour(s) == Within(counters[s], now, Hour)

Kept(s) == Within(counters[s], now, Day)

Exceeded(s) ==
    Cardinality(Within(Kept(s), now, Hour)) >= PerHour \/ Cardinality(Kept(s)) >= PerDay

LimitProxy(c, s) ==
    /\ Policy(s) = "limited" /\ Exceeded(s)
    /\ Answer(c, <<>>)
    /\ counters' = [counters EXCEPT ![s] = Kept(s)]
    /\ UNCHANGED <<disk, config, running, edits>>

(* A request counts whether or not the host then does it.                   *)
ProxyRequest(c, u) ==
    /\ Policy(u) # "block"
    /\ Policy(u) = "limited" => ~Exceeded(u)
    /\ IF Policy(u) = "limited"
       THEN /\ counters' = [counters EXCEPT ![u] = Kept(u) \cup {NewMark(passed[u], now)}]
            /\ passed' = [passed EXCEPT ![u] = @ \cup {NewMark(@, now)}]
       ELSE UNCHANGED <<counters, passed>>
    /\ Forward(c, <<"proxy">>, <<>>)
    /\ UNCHANGED <<disk, config, running, edits>>

-----------------------------------------------------------------------------
(* mcp_proxy *)
RefuseOperation(c, o) ==
    /\ o \notin config.operations
    /\ Answer(c, IF config.operations = {} THEN <<>> ELSE <<"mcp_operation_blocked">>)
    /\ UNCHANGED bridge

(* A bug: a request is first logged with its answer. *)
McpProxyUnlogged(c, o) ==
    /\ o \in config.operations
    /\ Forward(c, <<"mcp", o>>, <<>>)
    /\ UNCHANGED <<bridge, passed>>

McpProxy(c, o) ==
    /\ o \in config.operations
    /\ Forward(c, <<"mcp", o>>, <<"mcp_request">>)
    /\ UNCHANGED <<bridge, passed>>

-----------------------------------------------------------------------------
(* check_memory_content: the first category that matches decides.           *)
Matching(text) == {i \in DOMAIN config.guardian : config.guardian[i].category \in text}

Verdict(text) ==
    IF Matching(text) = {} THEN "allow"
    ELSE config.guardian[CHOOSE i \in Matching(text) : \A j \in Matching(text) : i <= j].action

Triggered(text) == IF Matching(text) = {} THEN <<>> ELSE <<"memory_guardian_trigger">>

ScreenMemory(c, text) ==
    /\ Answer(c, Triggered(text) \o
           CASE Verdict(text) = "block" -> <<"memory_blocked">>
             [] Verdict(text) = "redact_and_store" -> <<"memory_redacted">>
             [] OTHER -> <<>>)
    /\ UNCHANGED bridge

BlockLlm(c, text) ==
    /\ Verdict(text) = "block"
    /\ Answer(c, Append(Triggered(text), "llm_request"))
    /\ UNCHANGED bridge

InterceptLlm(c, text) ==
    /\ Verdict(text) # "block"
    /\ Forward(c, <<"llm">>, Append(Triggered(text), "llm_request"))
    /\ UNCHANGED <<bridge, passed>>

-----------------------------------------------------------------------------
(* The host.  bridge_proxy refuses internal addresses; a connector refuses   *)
(* operations it does not know; the chat refuses a caller without a token.   *)
Kind(c) == job[c][1]

(* _check_rate_limit drops what is a minute old and counts the rest.        *)
Room == Cardinality(Within(times, now, Minute)) < PerMinute

Admit ==
    /\ Room
    /\ times' = Within(times, now, Minute) \cup {NewMark(passed["connector"], now)}
    /\ passed' = [passed EXCEPT !["connector"] = @ \cup {NewMark(@, now)}]

Handle(c) ==
    /\ c \in inbox
    /\ inbox' = inbox \ {c}
    /\ answers' = answers \cup {c} /\ reached' = reached \cup {c}
    /\ IF Kind(c) = "mcp" /\ job[c][2] \in Supported /\ Room
       THEN Admit
       ELSE UNCHANGED <<times, passed>>
    /\ UNCHANGED <<bridge, calls, log, now>>

(* The host's own users call the connector.                                 *)
Execute ==
    /\ Admit
    /\ UNCHANGED <<bridge, calls, inbox, answers, reached, log, now>>

Answered(c) == IF Kind(c) = "llm" THEN <<"llm_response">> ELSE <<>>

(* The answer; none, within the timeout or at all (502); or one that is not  *)
(* JSON, which the handler does not catch: its call is not tracked.         *)
Return(c) ==
    /\ running /\ stage[c] = "sent" /\ c \in answers
    /\ End(c, Answered(c))
    /\ UNCHANGED <<bridge, job, host, passed, now>>

GiveUp(c) ==
    /\ running /\ stage[c] = "sent"
    /\ End(c, <<>>)
    /\ UNCHANGED <<bridge, job, host, passed, now>>

Unreachable(c) ==
    /\ running /\ stage[c] = "sent" /\ c \notin reached
    /\ inbox' = inbox \ {c}
    /\ End(c, <<>>)
    /\ UNCHANGED <<bridge, job, answers, reached, times, passed, now>>

ReturnUnreadable(c) ==
    /\ running /\ stage[c] = "sent" /\ c \in answers
    /\ Done(c) /\ Log(c, Answered(c))
    /\ UNCHANGED <<bridge, job, host, passed, now>>

-----------------------------------------------------------------------------
(* lifespan, reload_config.  A file that does not parse ends a start, and    *)
(* changes nothing in a reload.                                             *)
Load ==
    /\ disk # Broken
    /\ config' = IF disk = Missing THEN Unconfigured ELSE disk
    /\ running' = TRUE
    /\ UNCHANGED <<disk, counters, edits, calls, host, log, passed, now>>

Edit(content) ==
    /\ edits < MaxEdits /\ edits' = edits + 1
    /\ disk' = content
    /\ UNCHANGED <<config, running, counters, calls, host, log, passed, now>>

Crash ==
    /\ running /\ running' = FALSE
    /\ config' = Unconfigured /\ counters' = NoLimits
    /\ stage' = [c \in Calls |-> IF stage[c] = "sent" THEN "done" ELSE stage[c]]
    /\ passed' = [k \in DOMAIN passed |-> IF k \in Services THEN {} ELSE passed[k]]
    /\ UNCHANGED <<disk, edits, job, host, log, now>>

Tick ==
    /\ now < MaxTime /\ now' = now + 1
    /\ UNCHANGED <<bridge, calls, host, log, passed>>

Next ==
    \/ \E c \in Calls :
          \/ \E u \in Urls : CheckUrl(c, u) \/ BlockProxy(c, u) \/ ProxyRequest(c, u)
          \/ \E s \in Services : LimitProxy(c, s)
          \/ \E o \in Operations : RefuseOperation(c, o) \/ McpProxy(c, o)
          \/ \E t \in Texts : ScreenMemory(c, t) \/ BlockLlm(c, t) \/ InterceptLlm(c, t)
          \/ Handle(c) \/ Return(c) \/ GiveUp(c) \/ Unreachable(c) \/ ReturnUnreadable(c)
    \/ \E content \in Configs \cup {Missing, Broken} : Edit(content)
    \/ Execute \/ Load \/ Crash \/ Tick

Spec == Init /\ [][Next]_vars

-----------------------------------------------------------------------------
(* In any hour and any day of a run of the bridge a limited service gets no  *)
(* more requests than its limits, through reloads; and in any minute the     *)
(* connector, whoever calls it, no more than its own.                       *)
WithinLimits ==
    /\ \A s \in Services : AtMost(PerHour, passed[s], Hour) /\ AtMost(PerDay, passed[s], Day)
    /\ AtMost(PerMinute, passed["connector"], Minute)

(* Whatever tool or chat request of the agents the host gets to handle is in *)
(* the bridge's log already, also if the bridge gave up on it or died, unless *)
(* the line could not be written; what is not logged because the directory  *)
(* of the log cannot be made is not sent either.                            *)
HandledIsLogged ==
    \A c \in reached :
        /\ Kind(c) = "mcp" => <<c, "mcp_request">> \in logged \cup lost
        /\ Kind(c) = "llm" => <<c, "llm_request">> \in logged \cup lost
=============================================================================
