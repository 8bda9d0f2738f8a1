SPECIFICATION CommandFairSpec
CONSTANTS
  Tokens = {" ", ")", "(", "w", "v", "FLAGS", "No subject", "A06 OK"}
  Mailboxes <- SmallMailboxes
  Completions = {"completed", "text", "refused"}
  MaxSubject = 5
  MaxNodes = 4
  Numbers = {1, 2, 3, 4}
CHECK_DEADLOCK FALSE
INVARIANT TypeOK
INVARIANT SubjectsAsSent
INVARIANT EveryMessageListed
INVARIANT SortTypeOK
INVARIANT OnTheList
INVARIANT EachOnce
INVARIANT Sorted
INVARIANT ListShowsMailbox
PROPERTY Ends
