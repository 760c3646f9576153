SPECIFICATION Spec
CONSTANTS
  NoTeam = NoTeam
  NoMatch = NoMatch
  ByeMarker = ByeMarker
  Fields = {1, 2, 3, 4, 5, 6, 7, 8, 9, 10, 11, 12, 13, 16, 17}
  Played = {2, 3, 4, 7}
  Results <- TwoResults
CHECK_DEADLOCK FALSE
INVARIANTS
  EveryTeamEntersOnce
  EverySlotIsFed
  TopSeedsMeetLate
  SidesAreDisjointAndNested
  RoundRobin
  StationsRespected
  StandingsBalance
  StandingsCanBeListed
  ByesAreEarned
