SPECIFICATION AutoDjSpec
CONSTANTS
  Clients = {c1, c2}
  Null = Null
  Slots = 3
  Months <- MCMonths
  Horizon = 8
  Sources = {"day", "night", "config"}
  WeeklyOffers <- MCWeekly
  EventOffers <- MCEvents
  InitialWeekly <- MCInitialWeekly
  InitialEvents <- MCInitialEvents
  Songs = {"a"}
  Source <- MCSource
  Config = "config"
  FillTimes <- MCFillTimes
  Listed <- MCListed
  PlayedLimit = 1
  Budgets <- MCBudgets
CHECK_DEADLOCK FALSE
INVARIANTS
  ProgrammeIsSound
  FillsAreSound
PROPERTY WhatIsOnPlays
