------------------------------- MODULE MCPipeline -------------------------------
(***************************************************************************)
(* Instances of Pipeline for TLC: two addresses and two domains, so that   *)
(* an address can change its domain, an answer can hold two addresses, and *)
(* one domain is allowed and the other is not.                             *)
(***************************************************************************)
EXTENDS Pipeline

CONSTANTS i1, i2, good, bad, work, secret, shell, script

MCPaths == {work, secret}
MCPrograms == {shell, script}
MCIps == {i1, i2}
MCDomains == {good, bad}

Answer(name, ips) == [answers |-> TRUE, readable |-> TRUE, name |-> name, ips |-> ips]
NoRecords(name) == [answers |-> FALSE, readable |-> TRUE, name |-> name, ips |-> {}]

MCMessages == {Answer(good, {i1, i2}), Answer(bad, {i1}), NoRecords(good)}
================================================================================
