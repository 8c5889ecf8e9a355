------------------------------- MODULE DeskProofs -------------------------------
(***************************************************************************)
(* What the run of MCDesk checks is what the proofs of its parts are       *)
(* about: whichever part runs, every part behaves as its own               *)
(* specification says, and so what is proved of a part holds of the union. *)
(***************************************************************************)
EXTENDS MCDesk, StorageProofs, WorkflowProofs, TargetsProofs, EdgeProofs

\* A step of the union is a step of each part, or leaves it alone.
LEMMA StepOfParts ==
    ASSUME [DeskNext]_deskVars
    PROVE  /\ [CompactionNext]_compactionVars /\ [DatabaseNext]_databaseVars
           /\ [WorkflowNext]_workflowVars /\ [TargetsNext]_targetVars /\ [AgentNext]_agentVars
           /\ [GatewayNext]_gatewayVars /\ [LegacyNext]_legacyVars /\ [TransportNext]_transportVars
  BY DEF DeskNext, deskVars, Storage, Handling, Edges

PartKnown ==
    part \in {"sessions", "workflow", "targets", "agent", "database", "gateway", "legacy", "transport"}

LEMMA PartStays == PartKnown /\ [DeskNext]_deskVars => PartKnown'
  BY DEF PartKnown, DeskNext, deskVars

\* Each part of the union keeps to its own specification, whatever part runs;
\* its gateway does so but for its fairness.
THEOREM DeskRunsParts ==
    DeskSpec => /\ CompactionSpec /\ DatabaseSpec
                /\ WorkflowSpec /\ TargetsSpec /\ AgentSpec
                /\ GatewayInit /\ [][GatewayNext]_gatewayVars
                /\ LegacySpec /\ TransportSpec
  <1>1. DeskInit => /\ CompactionInit /\ DatabaseInit /\ WorkflowInit /\ TargetsInit
                    /\ AgentInit /\ GatewayInit /\ LegacyInit /\ TransportInit
    BY DEF DeskInit
  <1> QED
    BY <1>1, StepOfParts, PTL
    DEF DeskSpec, CompactionSpec, DatabaseSpec, WorkflowSpec, TargetsSpec, AgentSpec, LegacySpec, TransportSpec

\* The part that runs keeps its shape, for any constants of any part.
THEOREM DeskTypeCorrect ==
    ASSUME IsFiniteSet(Calls)
    PROVE  DeskSpec => []DeskTypeOK
  <1>1. DeskSpec => []GatewayInv
    BY DeskRunsParts, GatewayStarts, GatewayInductive, PTL
  <1>2. GatewayInv => GatewayTypeOK
    BY GatewayShape
  <1>3. /\ CompactionTypeOK /\ DatabaseTypeOK /\ WorkflowTypeOK /\ TargetsTypeOK
        /\ AgentTypeOK /\ GatewayTypeOK /\ LegacyTypeOK /\ TransportTypeOK /\ PartKnown
        => DeskTypeOK
    BY DEF DeskTypeOK, PartKnown
  <1>4. DeskInit => PartKnown
    BY DEF DeskInit, PartKnown
  <1>5. DeskSpec => []PartKnown
    BY <1>4, PartStays, PTL DEF DeskSpec
  <1> QED
    BY <1>1, <1>2, <1>3, <1>5, DeskRunsParts, CompactionTypeCorrect, DatabaseTypeCorrect,
       WorkflowTypeCorrect, TargetsTypeCorrect, AgentTypeCorrect, LegacyTypeCorrect, TransportTypeCorrect, PTL
=============================================================================
