--------------------------- MODULE MCApduArbiter ---------------------------
(* Instances of ApduArbiter for TLC: the requests each run may make.       *)
EXTENDS ApduArbiter, TLC

Ask(leaseType, class) ==
    [leaseType |-> leaseType, class |-> class, mode |-> "QMI", channel |-> 0,
     scope |-> NoValue, blocked |-> {}]
AskChannel(class, channel) ==
    [Ask("transport", class) EXCEPT !.channel = channel, !.scope = "qmi_channel"]

Euicc == Ask("transport", NoValue)
Aka == Ask("transport", "USIMAKA")
Session == Ask("session", NoValue)
OneShot == Ask("oneshot", NoValue)
Barrier == Ask("barrier", NoValue)
(* qmi_channel is only honoured for mode QMI and a channel above 0.        *)
AtChannel == [AskChannel("EUICCWrite", 1) EXCEPT !.mode = "AT"]

AllRequests == {Euicc, Aka, Session, OneShot, Barrier, AtChannel,
                AskChannel("EUICCWrite", 1), AskChannel("EUICCWrite", 2), AskChannel("USIMAKA", 3)}

(* The transports the program asks for and its barrier, which blocks the   *)
(* transport for authentication and under which Euicc may run.  A transport*)
(* of class SMSC is blocked like the one and ages like the other.          *)
TransportRequests == {Euicc, Aka, Barrier}

MixedRequests == {Euicc, Aka}

CallSymmetry == Permutations(Calls)
=============================================================================
