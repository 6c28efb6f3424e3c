SPECIFICATION Spec
CONSTANTS
  h = h
  a = a
  b = b
  k = k
  l = l
  x = x
  first = first
  second = second
  issue = issue
  pull = pull
  alice = alice
  bob = bob
  none = none
  NoGroup = none
  Comments = {a, b, k, l}
  Jobs = {a, b, k, l}
  Denied = {b}
  Principals = {alice, bob}
  PrincipalLimit <- MCPrincipalLimit
  MaxParallelism = 2
  MaxCollects = 1
  Existing = {a, b, k, l}
  Repositories <- TwoRepositories
  RepoOf <- MCRepoOf
  IssueOf <- MCIssueOf
  PullRequests = {pull}
  Intent <- MCIntent
  AuthorOf <- MCAuthorOf
  AllowedAuthors = {alice, bob}
  InitialSince = 0
  RetryDelay = 1
  MaxTime = 2
  MaxFaults = 1
INVARIANTS
  OneRunPerWork
  
  OutcomesHonest
