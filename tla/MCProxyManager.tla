--------------------------- MODULE MCProxyManager ---------------------------
(* Instances of ProxyManager for TLC.                                      *)
EXTENDS ProxyManager, TLC, Naturals

CONSTANTS a, b, one, two, start, stop, restart, apply, apply2, quit

(* Two settings, each with a port of its own.                              *)
TwoPorts == one :> 1 @@ two :> 2
BothModes == one :> "socks5" @@ two :> "http"

On(s) == [enabled |-> TRUE, setting |-> s]
Off(s) == [enabled |-> FALSE, setting |-> s]
Configured == [id \in Ids |-> Off(one)]
SomePlans == {a :> On(one) @@ b :> On(two), a :> On(two) @@ b :> None, a :> Off(one) @@ b :> On(one)}

(* The kind of each call is in its name; an instance takes some of them.   *)
MCKindOf ==
    [c \in Calls |->
        CASE c = start -> "start" [] c = stop -> "stop" [] c = restart -> "restart"
          [] c \in {apply, apply2} -> "apply" [] c = quit -> "shutdown"]
OnlyId == [c \in Calls |-> a]

(* A behaviour of the run has the calls of one of these: the actions on an *)
(* instance, or syncs and the final shutdown.                              *)
Workloads == {{start, stop, restart}, {apply, apply2, quit}}

Begun == {c \in Calls : pc[c] # "new"}

OneWorkload == \E w \in Workloads : Begun' \subseteq w

Applies == Permutations({apply, apply2})
=============================================================================
