----------------------------- MODULE MCServices -----------------------------
(* What outlives a run or limits it: the skills, the memory, the model with its *)
(* cache, what bounds its use, what the sources of perception report, and how a  *)
(* run is cut into segments.  The components share no state: a behaviour is      *)
(* about one of them, and the others stay in one initial state.                 *)
EXTENDS SkillStore, MemoryReading, LlmClient, CostGovernance, Perception, SessionSegments, TLC

CONSTANTS s1, s2
VARIABLE about

servicesVars == <<about, skillVars, memoryVars, llmVars, costVars, perceptionVars,
                  segmentVars>>

(* Rows are only few when runs are, and passes of the governor are many; the     *)
(* entries of a run are more when it is alone.                                 *)
MCSkillBounds == {[runs |-> 2, retrievals |-> 2, disturbances |-> 0],
                  [runs |-> 1, retrievals |-> 2, disturbances |-> 2]}
MCMemoryBounds == {[runs |-> 1, entries |-> 3, faults |-> 0],
                   [runs |-> 2, entries |-> 2, faults |-> 1]}
MCEventOf == [r \in MemoryRuns |-> "event"]
MCLevels == <<"5min", "1h", "24h">>
MCWindowOf == [l \in ToSet(MCLevels) |-> CASE l = "5min" -> 1 [] l = "1h" -> 2 [] OTHER -> 4]
MCLimitOf == [l \in ToSet(MCLevels) |-> CASE l = "5min" -> 1 [] l = "1h" -> 2 [] OTHER -> 3]

(* The runs that use skills are alike, and so are those that use the memory, the *)
(* questions and the prompts.                                                   *)
ServicesSymmetry ==
    Permutations(SkillRuns) \cup Permutations(MemoryRuns) \cup Permutations(Asks)
    \cup Permutations(Prompts)

ServicesInit ==
    /\ about \in {"skills", "memory", "llm", "usage", "buckets", "perception", "segments"}
    /\ SkillInit /\ MemoryInit /\ LlmInit /\ CostInit /\ PerceptionInit /\ SegmentsInit
    /\ about # "skills" => ~chroma /\ bounds = CHOOSE bound \in MCSkillBounds : TRUE
    /\ about # "memory" => memoryBound = CHOOSE bound \in MCMemoryBounds : TRUE
    /\ about # "llm" => apiKeys = {"chat"}
    /\ about # "perception" => monitor = "intent"

ServicesNext ==
    /\ UNCHANGED about
    /\ \/ about = "skills" /\ SkillNext
          /\ UNCHANGED <<memoryVars, llmVars, costVars, perceptionVars, segmentVars>>
       \/ about = "memory" /\ MemoryNext
          /\ UNCHANGED <<skillVars, llmVars, costVars, perceptionVars, segmentVars>>
       \/ about = "llm" /\ LlmNext
          /\ UNCHANGED <<skillVars, memoryVars, costVars, perceptionVars, segmentVars>>
       \/ about = "usage" /\ UsageNext
          /\ UNCHANGED <<skillVars, memoryVars, llmVars, perceptionVars, segmentVars>>
       \/ about = "buckets" /\ BucketNext
          /\ UNCHANGED <<skillVars, memoryVars, llmVars, perceptionVars, segmentVars>>
       \/ about = "perception" /\ PerceptionNext
          /\ UNCHANGED <<skillVars, memoryVars, llmVars, costVars, segmentVars>>
       \/ about = "segments" /\ SegmentsNext
          /\ UNCHANGED <<skillVars, memoryVars, llmVars, costVars, perceptionVars>>

ServicesSpec == ServicesInit /\ [][ServicesNext]_servicesVars
=============================================================================
