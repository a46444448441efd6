---------------------------- MODULE MCProviderKeys ----------------------------
(* ProviderKeys on small instances: two requests about the order of the keys *)
(* around calls that are answered, or one about whether a key may be used    *)
(* around calls that meet every kind of failure.                             *)
EXTENDS ProviderKeys

MCReply == [order |-> {"answer"}, failure |-> {"answer", "s401", "s5xx", "s4xx"}]
MCPut == [order |-> {"priority"}, failure |-> {"active", "secret"}]
MCOdd == [order |-> {Called}, failure |-> Provider]
MCMaxRequests == [order |-> 2, failure |-> 1]
=============================================================================
