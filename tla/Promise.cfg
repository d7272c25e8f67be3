SPECIFICATION FairSpec
CONSTANTS Waiter = {w1, w2, w3}
          Future = {w2}
          Outward = {w1}
          MaxCalls = 2
INVARIANTS OutcomeJustified NobodyForgotten
PROPERTY Served
