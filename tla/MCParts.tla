------------------------------ MODULE MCParts ------------------------------
(***************************************************************************)
(* Five parts that share no state: of the node the lifetime counters, the  *)
(* tunables and the encoder, of the gateway the registry, of the service   *)
(* the tailer.  A behaviour runs one of them: their interleavings would be *)
(* a product of the five and show nothing more.                            *)
(***************************************************************************)
EXTENDS NodeStats, ParamTable, Encoder, GwNodes, InfluxTailer

VARIABLE part

\* The ranges of the rows of the table.
Ranged == [r \in PRows |-> IF r = "setpoint" THEN {1, 2} ELSE {1}]

MCvars == <<part, vars, pvars, evars, rvars, tvars>>

MCInit ==
  /\ part \in {"stats", "params", "encoder", "registry", "tailer"}
  /\ Init /\ ParamInit /\ EncoderInit /\ RegistryInit /\ TailerInit
  /\ part # "encoder" => cand = "up"
  /\ part # "registry" => role = [b \in Boards |-> CHOOSE r \in Roles : TRUE]

MCNext ==
  \/ part = "stats" /\ Next /\ UNCHANGED <<part, pvars, evars, rvars, tvars>>
  \/ part = "params" /\ ParamNext /\ UNCHANGED <<part, vars, evars, rvars, tvars>>
  \/ part = "encoder" /\ EncoderNext /\ UNCHANGED <<part, vars, pvars, rvars, tvars>>
  \/ part = "registry" /\ RegistryNext /\ UNCHANGED <<part, vars, pvars, evars, tvars>>
  \/ part = "tailer" /\ TailerNext /\ UNCHANGED <<part, vars, pvars, evars, rvars>>

MCSpec == MCInit /\ [][MCNext]_MCvars

\* The type invariants of the five parts.
TypesOK ==
  /\ TypeOK /\ ParamTypeOK /\ EncoderTypeOK /\ RegistryTypeOK /\ TailerTypeOK
=============================================================================
