SPECIFICATION FairKeeperSpec
CONSTANTS
  Tabs = {t1, t2} Ticks = {k1}
  MaxMarks = 1 MaxFailures = 2
PROPERTIES OverdueIsMarked RevertsOnlyWhenOvertaken
