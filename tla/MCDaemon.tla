------------------------------ MODULE MCDaemon ------------------------------
(* Two kinds of commands and three contents of risk.toml for Daemon. *)
EXTENDS Daemon

\* A command that is refused, and one that trades.
MCCommands == {<<"report">>, <<"market", "report", "market">>}

\* Missing or empty; a value that does not parse after one that does; a repeated key.
MCRiskFiles ==
    {<< >>,
     <<<<"maxNotional", 5>>, <<"maxNotional", -1>>>>,
     <<<<"priceBandPct", 7>>, <<"unknown", 1>>, <<"priceBandPct", 9>>>>}
=============================================================================
