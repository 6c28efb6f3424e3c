SPECIFICATION Spec
CONSTANTS
  h = h
  a = a
  b = b
  k = k
  l = l
  x = x
  first = first
  second = second
  issue = issue
  pull = pull
  alice = alice
  bob = bob
  none = none
  NoGroup = none
  Comments = {h, a, k, x}
  Jobs = {h, a, k, x}
  Denied = {}
  Principals = {alice, bob}
  PrincipalLimit <- MCPrincipalLimit
  MaxParallelism = 1
  MaxCollects = 0
  Existing = {h, a, x}
  Repositories <- TwoRepositories
  RepoOf <- MCRepoOf
  IssueOf <- MCIssueOf
  PullRequests = {pull}
  Intent <- MCIntent
  AuthorOf <- MCAuthorOf
  AllowedAuthors = {alice, bob}
  InitialSince = 0
  RetryDelay = 1
  MaxTime = 2
  MaxFaults = 1
INVARIANTS
  NothingSkipped
  HelpAnsweredOnce
PROPERTIES
  CommandsAnswered
