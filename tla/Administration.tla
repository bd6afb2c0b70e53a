---------------------------- MODULE Administration ----------------------------
(***************************************************************************)
(* What surrounds the work on data: the registry of sources and            *)
(* credentials, the metadata catalogue, the rules, and the sessions of     *)
(* users.  No action of one part reads what another part writes, and no    *)
(* property relates two of them: a behaviour is one of the part it begins  *)
(* with, which leaves out nothing but the product of their interleavings.  *)
(***************************************************************************)
EXTENDS SourceRegistry, Discovery, Access, Rules

VARIABLE part

vars == <<part, registryVars, discoveryVars, accessVars, rulesVars>>

Init ==
  /\ part \in {"registry", "discovery", "access", "rules"}
  /\ RegistryInit /\ DiscoveryInit /\ AccessInit /\ RulesInit
  /\ part # "discovery" => \A d \in Dataset : source[d] = {} /\ datasetRow[d] = "absent"

Next ==
  /\ UNCHANGED part
  /\ \/ part = "registry"  /\ RegistryNext  /\ UNCHANGED <<discoveryVars, accessVars, rulesVars>>
     \/ part = "discovery" /\ DiscoveryNext /\ UNCHANGED <<registryVars, accessVars, rulesVars>>
     \/ part = "access"    /\ AccessNext    /\ UNCHANGED <<registryVars, discoveryVars, rulesVars>>
     \/ part = "rules"     /\ RulesNext     /\ UNCHANGED <<registryVars, discoveryVars, accessVars>>

Spec == Init /\ [][Next]_vars

\* Every variable of the four parts has its type.
TypeOK == RegistryTypeOK /\ DiscoveryTypeOK /\ AccessTypeOK /\ RulesTypeOK
=============================================================================
