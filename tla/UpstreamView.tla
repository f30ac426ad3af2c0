----------------------------- MODULE UpstreamView -----------------------------
(* The upstream tab of the proxy page, Proxy.vue, over its store: upstream  *)
(* proxies, the countries ruled to leave through one, and the two drawers.  *)
EXTENDS FiniteSets, Naturals

CONSTANTS
    Upstreams,     \* ids of upstream proxies
    Countries,
    None,
    Closed,
    MaxCalls       \* bound: calls in flight

VARIABLES
    server,        \* external: the proxies and rules the server keeps
    proxies,       \* upstreamStore.proxies
    rules,         \* upstreamStore.countryRules: the proxy of each country
    loading, refreshing,           \* upstreamLoading, upstreamRefreshing
    editing,       \* the drawer: Closed, or editingUpstream, None for a new one
    ruleOpen,      \* countryRuleDrawerOpen
    target,        \* countryRuleTargetProxy
    selected,      \* selectedCountryCode
    calls

vars == <<server, proxies, rules, loading, refreshing, editing,
          ruleOpen, target, selected, calls>>
shown == <<proxies, rules>>
flags == <<loading, refreshing>>
ruleDrawer == <<ruleOpen, target, selected>>

Rules == [Countries -> Upstreams \cup {None}]
Servers == [proxies : SUBSET Upstreams, rules : Rules]
NoRules == [c \in Countries |-> None]

(* fetchAll() asks for the proxies and for the rules apart; a call that     *)
(* changes something carries what the server is to become of it.            *)
Blank == [op |-> "fetch", arg |-> "silent", country |-> None, proxies |-> {}, rules |-> NoRules, got |-> {}]
Fetch(kind) == [Blank EXCEPT !.arg = kind]
Change(op, id, country) == [Blank EXCEPT !.op = op, !.arg = id, !.country = country]
Room == Cardinality(calls) < MaxCalls

(* fetchUpstream(): the flag it holds.                                      *)
FetchUpstream(kind, cs) ==
    /\ calls' = cs \cup {Fetch(kind)}
    /\ refreshing' = (refreshing \/ kind = "user")

(* onMounted().                                                             *)
Init ==
    /\ server \in {s \in Servers : \A c \in Countries : s.rules[c] \in s.proxies \cup {None}}
    /\ proxies = {} /\ rules = NoRules
    /\ loading = TRUE /\ refreshing = FALSE
    /\ editing = Closed
    /\ ruleOpen = FALSE /\ target = None /\ selected = None
    /\ calls = {Fetch("initial")}

(* The poll begins after the first load and runs one fetch at a time.       *)
Poll ==
    /\ Room /\ ~ loading /\ \A c \in calls : c.arg # "silent"
    /\ FetchUpstream("silent", calls)
    /\ UNCHANGED <<server, loading>> /\ UNCHANGED <<shown, editing, ruleDrawer>>

Retry ==
    /\ Room /\ FetchUpstream("user", calls)
    /\ UNCHANGED <<server, loading>> /\ UNCHANGED <<shown, editing, ruleDrawer>>

(* The server answers one of the two requests of a fetch.                   *)
ServerReads(c) ==
    /\ c.op = "fetch"
    /\ calls' \in
          { (calls \ {c}) \cup {d} : d \in
               { [c EXCEPT !.got = @ \cup {"proxies"}, !.proxies = server.proxies],
                 [c EXCEPT !.got = @ \cup {"rules"}, !.rules = server.rules] } }
    /\ \A d \in calls' \ calls : d.got # c.got
    /\ UNCHANGED server /\ UNCHANGED <<shown, flags, editing, ruleDrawer>>

(* Both have answered or failed: what has come is shown.                    *)
FetchReply(c) ==
    /\ c.op = "fetch"
    /\ proxies' = IF "proxies" \in c.got THEN c.proxies ELSE proxies
    /\ rules' = IF "rules" \in c.got THEN c.rules ELSE rules
    /\ loading' = (loading /\ c.arg # "initial")
    /\ refreshing' = (refreshing /\ c.arg # "user")
    /\ calls' = calls \ {c}
    /\ UNCHANGED server /\ UNCHANGED <<editing, ruleDrawer>>

(* openUpstreamDrawer(), and cancel.                                        *)
OpenDrawer(id) ==
    /\ editing = Closed /\ ~ ruleOpen /\ id \in proxies \cup {None}
    /\ editing' = id
    /\ UNCHANGED <<server, calls>> /\ UNCHANGED <<shown, flags, ruleDrawer>>

CloseDrawer ==
    /\ editing # Closed /\ editing' = Closed
    /\ UNCHANGED <<server, calls>> /\ UNCHANGED <<shown, flags, ruleDrawer>>

(* saveUpstreamForm(): the drawer stays open while the server probes.       *)
SaveForm(id) ==
    /\ Room /\ editing \in {None, id}
    /\ calls' = calls \cup {Change(IF editing = None THEN "create" ELSE "update", id, None)}
    /\ UNCHANGED server /\ UNCHANGED <<shown, flags, editing, ruleDrawer>>

DeleteUpstream(id) ==
    /\ Room /\ editing = Closed /\ ~ ruleOpen /\ id \in proxies
    /\ calls' = calls \cup {Change("delete", id, None)}
    /\ UNCHANGED server /\ UNCHANGED <<shown, flags, editing, ruleDrawer>>

(* openCountryRuleDrawer().                                                 *)
OpenRules(id) ==
    /\ editing = Closed /\ ~ ruleOpen /\ id \in proxies
    /\ ruleOpen' = TRUE /\ target' = id /\ selected' = None
    /\ UNCHANGED <<server, calls>> /\ UNCHANGED <<shown, flags, editing>>

CloseRules ==
    /\ ruleOpen /\ ruleOpen' = FALSE
    /\ UNCHANGED <<server, target, selected, calls>> /\ UNCHANGED <<shown, flags, editing>>

(* availableCountries: those with no rule, or a rule for this proxy.        *)
SelectCountry(country) ==
    /\ ruleOpen /\ rules[country] \in {None, target}
    /\ selected' = country
    /\ UNCHANGED <<server, ruleOpen, target, calls>> /\ UNCHANGED <<shown, flags, editing>>

(* doUpsertCountryRule() and doDeleteCountryRule().                         *)
UpsertRule ==
    /\ Room /\ ruleOpen /\ selected # None
    /\ calls' = calls \cup {Change("upsert", target, selected)}
    /\ UNCHANGED server /\ UNCHANGED <<shown, flags, editing, ruleDrawer>>

DeleteRule(country) ==
    /\ Room /\ ruleOpen /\ rules[country] = target
    /\ calls' = calls \cup {Change("unrule", target, country)}
    /\ UNCHANGED server /\ UNCHANGED <<shown, flags, editing, ruleDrawer>>

(* The server makes the change, if it can; rules of a proxy go with it.     *)
ServerChanges(c) ==
    /\ c.op # "fetch" /\ c.got = {}
    /\ LET id == c.arg
           without == [k \in Countries |-> IF server.rules[k] = id THEN None ELSE server.rules[k]]
       IN  server' =
             CASE c.op = "create" -> [server EXCEPT !.proxies = @ \cup {id}]
               [] c.op = "update" -> server
               [] c.op = "delete" -> [proxies |-> server.proxies \ {id}, rules |-> without]
               [] c.op = "upsert" -> IF id \in server.proxies
                                     THEN [server EXCEPT !.rules[c.country] = id] ELSE server
               [] c.op = "unrule" -> [server EXCEPT !.rules[c.country] = None]
    /\ calls' = (calls \ {c}) \cup {[Change(c.op, None, None) EXCEPT !.got = {"done"}]}
    /\ UNCHANGED <<shown, flags, editing, ruleDrawer>>

(* The answer: a save closes the drawer, an upsert clears the country, and  *)
(* all is fetched again; a failure leaves the page as it is.                *)
ChangeReply(c) ==
    /\ c.op # "fetch"
    /\ \/ /\ c.got = {"done"}
          /\ FetchUpstream("user", calls \ {c})
          /\ editing' = IF c.op \in {"create", "update"} THEN Closed ELSE editing
          /\ selected' = IF c.op = "upsert" THEN None ELSE selected
       \/ calls' = calls \ {c} /\ UNCHANGED <<refreshing, editing, selected>>
    /\ UNCHANGED <<server, loading, ruleOpen, target>> /\ UNCHANGED shown

Next ==
    \/ Poll \/ Retry \/ CloseDrawer \/ CloseRules \/ UpsertRule
    \/ \E id \in Upstreams \cup {None} : OpenDrawer(id)
    \/ \E id \in Upstreams : SaveForm(id) \/ DeleteUpstream(id) \/ OpenRules(id)
    \/ \E k \in Countries : SelectCountry(k) \/ DeleteRule(k)
    \/ \E c \in calls : ServerReads(c) \/ FetchReply(c) \/ ServerChanges(c) \/ ChangeReply(c)

Spec == Init /\ [][Next]_vars
-----------------------------------------------------------------------------
TypeOK ==
    /\ server \in Servers /\ proxies \subseteq Upstreams /\ rules \in Rules
    /\ {loading, refreshing, ruleOpen} \subseteq BOOLEAN
    /\ editing \in Upstreams \cup {None, Closed} /\ {target} \subseteq Upstreams \cup {None}
    /\ selected \in Countries \cup {None}
    /\ \A c \in calls : c.op \in {"fetch", "create", "update", "delete", "upsert", "unrule"}

(* Each mark has a fetch in flight that takes it back.                      *)
FlagsEnd ==
    /\ loading => \E c \in calls : c.op = "fetch" /\ c.arg = "initial"
    /\ refreshing => \E c \in calls : c.op = "fetch" /\ c.arg = "user"

(* Every rule shown leads to a proxy shown.  It does not hold: the two are  *)
(* read apart.                                                              *)
RulesOfShown == \A k \in Countries : rules[k] \in proxies \cup {None}
=============================================================================
