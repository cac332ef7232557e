SPECIFICATION ThreadSpec
CONSTANTS
  Threads = {t1, t2}
  Agents = {a1, a2}
  Reviewer = Reviewer
  MaxComments = 4
SYMMETRY Symmetry
INVARIANT RepliedOnce
INVARIANT RepliedBeforeResolving
PROPERTY ResolvedWhenAnswered
