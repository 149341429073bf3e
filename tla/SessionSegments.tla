--------------------------- MODULE SessionSegments ---------------------------
(***************************************************************************)
(* The segments of a long run: after every step that is reported the         *)
(* workflow asks whether enough of them have gathered, and if so closes a    *)
(* segment with a summary, a link to the one before and the ids of its first *)
(* and last step.  A run that is planned anew goes on in the same segment;   *)
(* every run has an id of its own, and so has a run that is resumed.         *)
(***************************************************************************)
EXTENDS OrderedItems, SequencesExt

CONSTANTS
    MaxStepsPerSegment,     \* 10
    MaxSummarySteps,        \* 5
    StepBound               \* the steps of the run, over all its executions

ASSUME SegmentsAssumption == {MaxStepsPerSegment, MaxSummarySteps, StepBound} \subseteq Nat \ {0}

VARIABLES
    segments,               \* the checkpoints of the run, in the order they were made
    completedStepRecords,   \* the steps of the segment that is open
    currentSegmentId,       \* the checkpoint made last; 0 is none
    reported                \* history: all steps that were reported

segmentVars == <<segments, completedStepRecords, currentSegmentId, reported>>

SegmentsInit ==
    segments = <<>> /\ completedStepRecords = <<>> /\ currentSegmentId = 0 /\ reported = <<>>

ShouldSegment(count) == count >= MaxStepsPerSegment

IsKey(step) == step.kind \in {"delegate", "tool_call"}

(* Mutant: the first steps, whatever they are. *)
SummarizeFirst(steps) ==
    SubSeq(steps, 1, IF Len(steps) < MaxSummarySteps THEN Len(steps) ELSE MaxSummarySteps)

(* summarize_segment: key steps first, so that others are named only when those are few. *)
SummarizeSegment(steps) ==
    LET named == SortedBy(steps, [i \in DOMAIN steps |-> IF IsKey(steps[i]) THEN 0 ELSE 1]) IN
    SubSeq(named, 1, IF Len(named) < MaxSummarySteps THEN Len(named) ELSE MaxSummarySteps)

(* create_checkpoint; its index is the number of those the run has. *)
Checkpoint(steps, parent) ==
    [id |-> Len(segments) + 1, index |-> Len(segments), parent |-> parent,
     start |-> Head(steps).id, end |-> Last(steps).id, count |-> Len(steps),
     summary |-> SummarizeSegment(steps)]

(* The part of _on_node_completed after the runtime store and the memory. *)
StepReported ==
    /\ Len(reported) < StepBound
    /\ \E kind \in {"delegate", "tool_call", "finalize"} :
         LET step == [id |-> Len(reported) + 1, kind |-> kind]
             records == Append(completedStepRecords, step) IN
         /\ reported' = Append(reported, step)
         /\ IF ShouldSegment(Len(records))
            THEN /\ segments' = Append(segments, Checkpoint(records, currentSegmentId))
                 /\ currentSegmentId' = Len(segments) + 1
                 /\ completedStepRecords' = <<>>
            ELSE /\ completedStepRecords' = records
                 /\ UNCHANGED <<segments, currentSegmentId>>

SegmentsNext == StepReported

SegmentsSpec == SegmentsInit /\ [][SegmentsNext]_segmentVars

-----------------------------------------------------------------------------
(* get_segment_chain, and what a checkpoint would hand to a run that continues. *)
SegmentChain == SortedBy(segments, [i \in DOMAIN segments |-> segments[i].index])

(* The segments of a run and the open one split its steps: each begins after the  *)
(* end of the one its link names, has as many steps as it says, and its summary    *)
(* tells of these and leaves out a step that matters only for as many others that  *)
(* do (create_checkpoint, summarize_segment and the callback that calls them).    *)
SegmentsTellTheRun ==
    /\ \A i \in DOMAIN SegmentChain :
         LET segment == SegmentChain[i]
             steps == SubSeq(reported, segment.start, segment.end)
             omitted == ToSet(steps) \ ToSet(segment.summary) IN
         /\ segment.start = 1 + (IF segment.parent = 0 THEN 0
                                 ELSE segments[segment.parent].end)
         /\ (segment.parent = 0) <=> (i = 1)
         /\ Len(steps) = segment.count /\ ToSet(segment.summary) \subseteq ToSet(steps)
         /\ (\E step \in omitted : IsKey(step)) =>
              Len(segment.summary) = MaxSummarySteps /\ \A step \in ToSet(segment.summary) : IsKey(step)
    /\ completedStepRecords =
         SubSeq(reported, 1 + (IF segments = <<>> THEN 0 ELSE Last(SegmentChain).end), Len(reported))
=============================================================================
