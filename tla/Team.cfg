SPECIFICATION MCSpec
CONSTANTS
  owner = owner
  member = member
  company = company
  other = other
  ownerToken = ownerToken
  memberToken = memberToken
  memberAccount = memberAccount
  content1 = content1
  content2 = content2
  revision1 = revision1
  revision2 = revision2
  import1 = import1
  import2 = import2
  key1 = key1
  key2 = key2
  call1 = call1
  call2 = call2
  account1 = account1
  account2 = account2
  user1 = user1
  user2 = user2
  login1 = login1
  login2 = login2
  token1 = token1
  token2 = token2
  Users = {owner, member}
  Organizations = {company, other}
  Metadata = {metadata}
  Tokens = {ownerToken, memberToken}
  Accounts = {memberAccount}
  UserOf <- MCUserOf
  Scopes <- MCScopes
  Named = {ownerToken}
  OrganizationOf <- MCOrganizationOf
  Records = {record1}
  Bodies = {body}
  None = None
  MaxRevision = 3
  Contents = {content1, content2}
  Revisions = {revision1, revision2}
  Imports = {import1, import2}
  Docs = {wiki}
  Reviewed = {experience}
  Levels = {1, 2}
  Grants = {grant1}
  Keys = {key}
  Origins = {archive}
  Owner = sharer
  Consumers = {consumer}
  Actors = {actor}
  Evidence = {"succeeded"}
  GrantDays = 2
  KnowledgeDays = 2
  Null = Null
  MaxTime = 2
  Kids = {key1, key2}
  Verifications = {call1, call2}
  Lifetime = 2
  RetryGap = 1
  Unset = Unset
  MaxMoment = 3
  GitHubIds = {account1, account2}
  Usernames = {name1}
  AppTokens = {token1, token2}
  Logins = {login1, login2}
  MemoryUsers = {user1, user2}
  OwnUser <- MCOwnUser
  AllowedUsers = {name1, account2}
  CacheTime = 2
  RateWindow = 1
  MaxAttempts = 1
  MaxActive = 1
  MaxCached = 1
  Nobody = Nobody
  MaxInstant = 3
INVARIANTS
  DirectoryIsSound
  AssetsAreSound
  VerdictsAreJustified
  LoginIsSound
PROPERTIES
  RightsAreCurrent
  RecordsAreKept
  ChangedAsSeen
  SharedAsGranted
CHECK_DEADLOCK FALSE
