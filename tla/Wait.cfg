SPECIFICATION DeadlineSpec
CONSTANTS
  Waiter = Waiter
  Resolver = Resolver
  Free = Free
INVARIANTS
  NoDanglingFrame
  OutcomeTrue
PROPERTIES
  LateResultKept
  ResolverReturns
  WaitReturns
