----------------------------- MODULE CardPolicy ------------------------------
(* The three switches of a SIM card's policy, network, VoWiFi and airplane  *)
(* mode (useCardPolicyToggles, with CardPolicyPanel.vue and                 *)
(* EsimCardPolicyInline.vue): what the page shows while toggles and reads   *)
(* of the policy are in flight.                                             *)
EXTENDS Naturals, FiniteSets

CONSTANTS
    Cards,
    NoCard,
    MaxReads       \* bound: reads of a policy in flight

VARIABLES
    card,          \* selectedDetail.value?.modem?.iccid
    policyCard,    \* the card cardPolicy is of
    local,         \* local.value: what the switches show
    failed,        \* the switches marked as not in effect
    toggling,      \* suspended toggles; their fields are the pending ones
    reads          \* suspended reads of policies, by card

vars == <<card, policyCard, local, failed, toggling, reads>>

Fields == {"network", "vowifi", "airplane"}
Mirrors == [Fields -> BOOLEAN]
AllOff == [f \in Fields |-> FALSE]

(* The rules of exclusion; policies written by this page obey them.         *)
Exclusive(m) == m["network"] => ~ m["vowifi"] /\ ~ m["airplane"]

(* nextMirror(): what else changes when field f becomes val.                *)
NextMirror(m, f, val) ==
    IF ~ val THEN [m EXCEPT ![f] = FALSE]
    ELSE IF f = "vowifi" THEN [m EXCEPT !["network"] = FALSE, !["vowifi"] = TRUE]
    ELSE [AllOff EXCEPT ![f] = TRUE]

Pending(f) == \E t \in toggling : t.field = f

Init ==
    /\ card = NoCard /\ policyCard = NoCard
    /\ local = AllOff /\ failed = {} /\ toggling = {} /\ reads = {}

(* The details show another card, or none: its policy is read.              *)
CardChanges(c) ==
    /\ c # card /\ Cardinality(reads) < MaxReads
    /\ card' = c
    /\ IF c = NoCard THEN policyCard' = NoCard /\ UNCHANGED reads
       ELSE reads' = reads \cup {c} /\ UNCHANGED policyCard
    /\ UNCHANGED <<local, failed, toggling>>

(* A policy has come: the switches follow it.                               *)
PolicyReply(c) ==
    /\ c \in reads
    /\ reads' = reads \ {c}
    /\ \/ /\ policyCard' = c /\ failed' = {}
          /\ \E m \in Mirrors : Exclusive(m) /\ local' = m
       \/ UNCHANGED <<policyCard, local, failed>>
    /\ UNCHANGED <<card, toggling>>

(* The switch of f is not greyed out.                                       *)
Usable(f) ==
    /\ card # NoCard /\ ~ Pending(f)
    /\ f = "network" => ~ local["vowifi"] /\ ~ local["airplane"]
    /\ f = "airplane" => ~ local["vowifi"]

(* The user moves a switch, which shows it at once; the request is sent.    *)
Toggle(f) ==
    /\ Usable(f)
    /\ LET val == ~ local[f]
       IN  /\ local' = [local EXCEPT ![f] = val]
           /\ toggling' = toggling \cup
                 {[field |-> f, val |-> val, next |-> NextMirror(local', f, val)]}
    /\ failed' = failed \ {f}
    /\ UNCHANGED <<card, policyCard, reads>>

(* It succeeds: all switches show what was computed when it was sent, and   *)
(* the policy is read again.                                                *)
ToggleOk(t) ==
    /\ t \in toggling
    /\ Cardinality(reads) < MaxReads
    /\ local' = t.next /\ toggling' = toggling \ {t}
    /\ reads' = IF card = NoCard THEN reads ELSE reads \cup {card}
    /\ policyCard' = IF card = NoCard THEN NoCard ELSE policyCard
    /\ UNCHANGED <<card, failed>>

(* It fails: its switch goes back.                                          *)
ToggleFails(t) ==
    /\ t \in toggling
    /\ local' = [local EXCEPT ![t.field] = ~ t.val]
    /\ failed' = failed \cup {t.field} /\ toggling' = toggling \ {t}
    /\ UNCHANGED <<card, policyCard, reads>>

Next ==
    \/ \E c \in Cards \cup {NoCard} : CardChanges(c) \/ PolicyReply(c)
    \/ \E f \in Fields : Toggle(f)
    \/ \E t \in toggling : ToggleOk(t) \/ ToggleFails(t)

Spec == Init /\ [][Next]_vars
-----------------------------------------------------------------------------
TypeOK ==
    /\ card \in Cards \cup {NoCard} /\ policyCard \in Cards \cup {NoCard}
    /\ local \in Mirrors /\ failed \subseteq Fields
    /\ toggling \subseteq [field : Fields, val : BOOLEAN, next : Mirrors]
    /\ reads \subseteq Cards

(* The rules of useCardPolicyToggles, once nothing is pending: the network  *)
(* is not shown on beside VoWiFi or airplane mode.  It does not hold: a     *)
(* toggle that fails late goes back beside one that has succeeded.          *)
SwitchesExclude == toggling = {} /\ reads = {} => Exclusive(local)

(* The policy shown is that of the card, once nothing is being read.  It    *)
(* does not hold: the policy of the card before is not dropped.             *)
PolicyIsOfCard == reads = {} => policyCard \in {NoCard, card}
=============================================================================
