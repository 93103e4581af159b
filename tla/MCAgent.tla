------------------------------- MODULE MCAgent -------------------------------
(***************************************************************************)
(* A small instance of Agent.                                              *)
(***************************************************************************)
EXTENDS Agent

Opt(key, value) == [key |-> key, value |-> value]

\* Numeric options: valid, replaced by the default, in both orders, given
\* twice, and a key without a value. Then the ones that start the controller.
MCOptionStrings ==
    LET numeric == {Opt(k, v) : k \in {"interval", "intervalMin", "intervalMax", "maxFrames"}, v \in {0, 2}}
                       \cup {Opt("start", 0), Opt("start", NONE)}
        address == <<Opt("host", "h"), Opt("port", "p")>>
    IN  {<<a, b>> : a, b \in numeric} \cup {<<Opt("logPath", "f")>> \o address, address}

MCRequests == {Op("start", 0, 0), Op("stop", 0, 0), Op("interval", 1, 1), Op("logPath", NULL, 0)}
MCCommands == {Op("start", 0, 0), Op("stop", 0, 0), Op("status", 0, 0), Op("unknown", 0, 0),
               Op("intervalMin", 2, 0), Op("intervalMax", 0, 0), Op("maxFrames", 2, 0)}
=============================================================================
