\* Two tasks that share a submission queue of two entries, and late completions of receives.
SPECIFICATION FairSpec
CONSTANTS
  t1 = t1
  t2 = t2
  NoTask = NoTask
  Sched = {"s1"}
  Task <- MCTask
  Entries = 2
  Kinds <- MixedKinds
  MaxAwait <- MixedAwait
INVARIANTS
  ResumedOnce
  NoneForgotten
PROPERTIES
  CompletionResumes
  PostedTaskRuns
  StopEndsRun
CHECK_DEADLOCK FALSE
