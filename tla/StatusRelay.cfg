\* Two relays racing for one fact, and one that sweeps orphans and late rows.  No
\* symmetry: liveness is checked.
SPECIFICATION StorySpec
CONSTANTS
  Workers = {w1, w2}
  FactCount = 3
  PageSize = 2
  MaxRevision = 2
  MaxFailures = 2
INVARIANTS GrantIsFresh SweepsSkipNothing
PROPERTIES MarksUnderPlacement ImplementsFeed EventuallyPublished
