-------------------------- MODULE MCExternalReporter --------------------------
(***************************************************************************)
(* ExternalReporter with a service of each policy and each protocol, one TCP *)
(* connection and one association with two addresses, which count as two     *)
(* systems; with PGW, without it, and with PGW alone.                       *)
(***************************************************************************)
EXTENDS ExternalReporter

CONSTANTS pg, left, right

MCIps == {pg, left, right}
MCRows ==
    {[proto |-> "TCP", ips |-> {pg}, lport |-> 3, rport |-> 1, up |-> TRUE],
     [proto |-> "SCTP", ips |-> {left, right}, lport |-> 1, rport |-> 2, up |-> TRUE]}
MCPgw == {"pgw"}
MCConfigs == {{"zone", "db", "pgw"}, {"zone", "db"}, {"pgw"}}
MCServices == UNION MCConfigs
MCItem ==
    [zone |-> [ips |-> {pg}, port |-> 1, server |-> FALSE, proto |-> "TCP",
               policy |-> "default"],
     db |-> [ips |-> {left, right}, port |-> 2, server |-> FALSE, proto |-> "SCTP",
             policy |-> "PG_Local_DB"],
     pgw |-> [ips |-> {left}, port |-> 1, server |-> TRUE, proto |-> "SCTP",
              policy |-> "none"]]
=============================================================================
