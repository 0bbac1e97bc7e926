CONSTANTS
  Names = {"Ann", "ann", "bob"}
  KeyOf <- TwoNames
  Passwords = {"p", "q"}
  Ids = {1, 2}
  Requests = {r1, r2}
SPECIFICATION FairSpec
INVARIANTS TypeOK CreatedIsTheAccount TokensKeepTheirUser LostAnswersStand
PROPERTIES EveryRegistrationIsAnswered
