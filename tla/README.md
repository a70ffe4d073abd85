# A TLA+ verification of the enterprise auth platform

The system is a NestJS service on PostgreSQL (through Prisma), Redis and BullMQ. It authenticates
users by password, second factor, social login and SAML, keeps their sessions, and decides what
they may do by roles, permissions and attribute policies. Its hard part is that every HTTP request
is a chain of `await`s: between any two database calls of one request the steps of other requests
run, the database is at READ COMMITTED, and rows are written by primary key without another look at
what was read. The models here take each request apart at exactly those points.

Paths below are relative to the repository; `auth/` stands for `src/modules/auth/`, and so on.

## 1. The system

| Part | State | Operations | What is hard about it |
|---|---|---|---|
| Sessions and refresh tokens (`auth/services/session.service.ts`) | rows of `sessions` and `refresh_tokens` | create, rotate, detect reuse, revoke one, revoke all, expire | rotation and revocation check and write in different steps; reuse detection writes and throws in one transaction |
| Authentication (`auth/services/auth.service.ts`) | `users`: `passwordHash`, `tokenVersion`, `status`, `failedLoginAttempts`, `lockUntil` | register, login, refresh, logout, logout-all, change and reset password, switch organization | stale user rows; several writes without a common transaction |
| Access tokens (`auth/strategies/jwt.strategy.ts`, `token.service.ts`) | none; the token carries `tokenVersion`, session and membership versions | sign, validate | a token is signed over versions read earlier |
| One-time tokens (`auth/services/verification.service.ts`) | `email_verification_tokens`, `password_reset_tokens`, `password_history` | issue, consume | consumed twice, or consumed in vain |
| MFA (`mfa/services/*`) | `mfa_secrets`, `backup_codes`, `mfa_challenges` | challenge, verify, reissue, set up, disable, regenerate codes | attempt limit and single use of backup codes under concurrent requests |
| Organizations (`organizations/services/*`) | `organizations`, `memberships`, `organization_invitations` | create, delete, invite, revoke, accept, update attributes, remove | the last administrator; accept against revoke |
| Roles and permissions (`authorization/services/role.service.ts`, `permission.service.ts`) | `roles`, `role_permissions`, `user_roles`, `permissionsVersion`, a Redis cache of permission sets | grant, revoke, replace, resolve | versions, database and cache are updated apart |
| Policies (`authorization/services/policy*.ts`, `authorization.service.ts`, `condition-evaluator.service.ts`, `guards/*`) | `policies`, `policy_conditions`, `policy_assignments`, a Redis cache of a member's attributes | create, change, assign, evaluate, guard a route | DENY over RBAC over ALLOW, missing attributes; rules and attributes change while a request is being decided |
| Social login (`oauth/services/*`) | `oauth_accounts`, state values in Redis | begin, callback, link, unlink | single use of `state`; accounts linked and unlinked while a callback is under way |
| SAML single sign-on (`sso/services/*`) | `sso_configurations`, replay marks in Redis | begin, handle assertion, provision | replay guard; reactivation of users |
| Cache, queue, mail, audit (`src/infrastructure/*`, `audit/`) | Redis keys, BullMQ jobs, `audit_logs` | get-or-set, invalidate, enqueue, record | cache fill against invalidation; the rest is best effort |

**Interaction.** Controllers call the services; services share the database and call one another
directly (`AuthService` -> `SessionService`, `MfaLoginService` -> `SessionService`, ...). Login calls
two hooks other modules register (SSO enforcement, MFA). Guards run before every handler:
`JwtStrategy` first, then tenant, permission and policy guards. Nothing holds a lock across two
database calls outside a transaction.

**What makes each part correct.** Sessions: what has been reported over stays over, tokens rotate
without stranding a session, nobody ends another's session. Lockout: no lock without cause, guessing
by login ends, a lock lasts as long as it should. One-time tokens: one effect per token. MFA: bounded attempts, each backup code
once. Organizations: there is always an administrator; an invitation has one outcome. Permissions: a
withdrawn permission stops working. Policies: a matching DENY always wins. Social and single sign-on: a
state or assertion admits one login.

`PROJECT.json` lists the hazards of this code, each at its line, with the properties that cover it.

## 2. The modules

| Module | Models |
|---|---|
| `SessionStore` | the two session tables and the transactions `SessionService` commits on them |
| `AuthSessions` | the requests of `AuthService` and `JwtStrategy` over those tables, in steps, with crashes, expiry and locking |
| `SessionLifecycle` | what sessions promise: the abstract specification `AuthSessions` implements |
| `AuthSessionsProofs` | the theorems about `AuthSessions` |
| `LoginLockout` | failed-login counting and the lock, with every kind of login that writes those columns |
| `LoginLockoutProofs` | the theorems about `LoginLockout` |
| `MfaLogin` | the second factor: challenges, attempts, backup codes, enrolment and removal |
| `MfaLoginProofs` | the theorems about `MfaLogin` |
| `Memberships` | one organization: invitations, members, their roles, and the tokens signed over them |
| `MembershipsProofs` | the theorems about `Memberships` |
| `LiveRoles` | what the tokens of an organization promise: the abstract specification `Memberships` implements |
| `PolicyEvaluation` | one decision: conditions, policies, their loops and the combination with RBAC |
| `AuthorizationProofs` | the theorems about `PolicyEvaluation` and `AccessGuard` |
| `PermissionCache` | roles, permissions, what they permit a member, the copy in Redis and the versions of tokens |
| `PermissionCacheProofs` | the theorems about `PermissionCache` |
| `AccessGuard` | the guard of a route, statement by statement, beside changes of policies and attributes |
| `OneTimeTokens` | registration, verification and reset tokens, the password history |
| `OneTimeTokensProofs` | the theorems about `OneTimeTokens` |
| `SocialLogin` | state parameters, provider accounts, login, sign-up, linking, unlinking |
| `SamlLogin` | relay states, the replay guard, provisioning, the configuration |
| `FederatedLoginProofs` | the theorems about `SocialLogin` and `SamlLogin` |
| `MCAuthSessions`, `MCLoginLockout`, `MCMfaLogin`, `MCMemberships`, `MCPolicyEvaluation`, `MCPermissionCache`, `MCAccessGuard`, `MCOneTimeTokens`, `MCFederatedLogin` | the instances TLC checks |

### AuthSessions over SessionStore

`owner`, `revoked`, `expired` are the `sessions` rows (`userId`, `revokedAt`, `expiresAt`);
`sessionOf`, `spent`, `successor` the `refresh_tokens` rows (`sessionId`, `revokedAt`,
`replacedByTokenId`). A session has a `familyId` of its own that rotation copies, so a session stands for its family.
`status`, `tokenVersion`, `password` are columns of `users`; a password is the number of times it has
been set. `access` holds every access token ever signed. `req[r]` is a request in flight: where it
stands (`pc`), and what it has read.

| Code | Actions, in order |
|---|---|
| `login` | `Login` (read the row, compare) - `OpenSession` (the transaction) - `Sign` |
| `refresh` | `PresentRefreshToken` (the reads of the rotation) - `Rotate` or `RefuseReuse` - `LoadUser` - `Sign` |
| `JwtStrategy.validate` | `PresentAccessToken` (the user) - `CheckSession` |
| `logout`, `DELETE /sessions/:id` | ... - `LookUpTarget` - `Revoke` |
| `logoutAll` | ... - `BumpTokenVersion` - `FindSessions` - `Revoke` |
| `changePassword`, `resetPassword` | ... - `SetPassword` - `FindSessions` - `Revoke` |
| `switchOrganization` | ... - `LoadUser` - `Sign` |

`Die` ends a request at any step without its next write: a crash, a transaction timeout or a
deadlock abort. `SessionExpires`, `LockAccount` and `Reactivate` are the rest of the world. One ghost observes:
`ended` has the sessions a success reply has reported over (`req[r].doomed` is what the reply is going to report).

`RevokeFamilyAndThrow` leaves the tables alone: the revocation it stands for is rolled back by the
exception that follows. The cache entry `auth:session:<id>` is written and deleted, and read nowhere.

### LoginLockout

One row of `users`: `status`, `attempts` (`failedLoginAttempts`), `lockUntil` (only ever compared
with the clock, so `past`, which is also null, or `future`). `GuessWrong` and `EnterPassword` are the reading
half of a password login, `HandleFailedLogin` and `ResetCounters` the writing halves; an MFA
completion and a social login end in the same `ResetCounters`; a single sign-on login ends in
`Reactivate`, which writes `status` alone. SUSPENDED and INACTIVE are written nowhere in the code and left out.
Passwords are compared in a second place: `ReissueChallenge` - `AnswerChallenge` are `POST /auth/mfa/challenge`, public like the login, which looks at `status` alone,
before it asks whether the user has a second factor, and neither counts a failure nor locks (`mfa/services/mfa-login.service.ts:187-208`). What is proved and checked of the count is therefore about `POST /auth/login`.

### MfaLogin

`secret`, `enabled` are the `mfa_secrets` rows (`secretEncrypted`, `isEnabled`); `codeOwner`, `used` the
`backup_codes` rows (`userId`, `usedAt`); `challenged`, `attempts`, `closed` the `mfa_challenges` rows
(`userId`, `attempts`, `consumedAt` or past `expiresAt`). A TOTP code stands for the secret it was computed
from. Of the codes a user is given together one is followed: they differ in nothing the service looks at.
A challenge is asked for only after the right password, by a user the earlier checks let through.

| Code | Actions, in order |
|---|---|
| MFA hook of `login`, `reissueChallenge` | `RequireSecondFactor` - `IssueChallenge` |
| `verifyAndCompleteLogin` | `ReadChallenge` - `CheckTotp` or `CheckBackupCode` - `UseFactor` (the stamp) - `RecordSuccess` - `OpenSession`, or - `RecordFailure` |
| `setup` | `Setup` (the check) - `SaveSecret` (the upsert) |
| `verifySetup` | `VerifySetup` - `FindBackupCodes` - `ReplaceBackupCodes` - `Enable` |
| `regenerateBackupCodes` | `RegenerateBackupCodes` - `FindBackupCodes` - `ReplaceBackupCodes` |
| `disable` | `Disable` - `FindBackupCodes` - `RemoveFactors` |

`FindBackupCodes` is the moment whose rows the `deleteMany` of a transaction sees; the rows another transaction
commits between it and this transaction's commit are not deleted. The ghosts `challengeLogins` and `codeLogins` count the sessions opened
through a challenge and with a backup code, `issuedTo` remembers whom a factor was generated for.

### Memberships

`status`, `deleted`, `permissionsVersion`, `attributesVersion` are the `memberships` rows of one organization (`deleted`: `deletedAt` is set; of
the statuses the code tells ACTIVE from the rest), `roles` the `user_roles` rows, `deletedRoles` the roles with `deletedAt`, `invitation` the
pending `organization_invitations` rows, `tokens` the access tokens signed. `Passes` is the membership check of `JwtStrategy`.

| Code | Actions, in order |
|---|---|
| `InvitationService.accept` | `ReadInvitation` - `Accept` (the writes of the transaction) |
| `MembershipService.remove` | `CountAdmins` - `CheckMember` if the count is low - `Remove` |
| `RoleService.remove` | `DeleteRole` - `FindHolders` - `BumpHolders` |
| `ActiveContextService.resolve*`, `issueAccessToken` | `ReadMembership` - `ReadUserRoles` - `Sign` |
| `create` and `revoke` of invitations, `updateAttributes`, `assignToMembership`, `revokeFromMembership` | one action each |
| `JitProvisioningService.provision` (its writes of `memberships` and `user_roles`) | `Provision` |

The requests with one action only check, before they write, that a row exists or may be written. Since nothing repeats the check when it writes, such a request
may write as long as the check was true once; rows are never deleted, so the action's guard is what the check leaves true for ever, and one
step covers a request that stalls between the two. The ghost `reported` holds the roles whose deletion has been reported, `steady` the removals since whose count
the rows counted are the same, `unannounced` the roles that single sign-on has given a member since `permissionsVersion` was incremented: `Provision` increments no version. `Admin` is the system role; it is never deleted.
`AdminRole` has the roles whose slug is `admin`: this one, and those an organization creates with the same slug, which `RoleService.create` looks for within the organization only (`role.service.ts:28-30`).
`AdminRows` are the rows `ensureNotLastAdmin` counts, so somebody with two such roles counts twice.

### PolicyEvaluation

`AuthorizationService.evaluate` once everything has been read. It is one synchronous computation, so there is no interference; what is hard is
the interplay of two loops with early exits, the conversions of values, and the combination with RBAC. `input` is what has been read, `remaining` the candidates of
the outer loop, `current` and `pending` the policy at hand and its unchecked conditions. Rows of equal priority, and conditions, come in any order.

| Code | Actions |
|---|---|
| `evaluate` without an active organization | `RefuseOutsider` |
| the filters of `PolicyEvaluatorService.evaluate` | `SelectCandidates` |
| its loop | `TakePolicy` - `PolicyMatches`, until a DENY matches (`AfterMatch`) or `LoopEnds` |
| `allConditionsPass` | `CheckCondition` |
| DENY over RBAC over ALLOW, `sanitize` | `Combine` |

Values carry their JavaScript type. `Coerce`, `ApplyOperator`, `DeepEqual`, `ExpectedValue` and `Read` are the methods of
`ConditionEvaluatorService` and `AttributeResolverService`; what `String`, `Number`, `Date` and the string operators answer is a constant function. The six seeded policies
are definitions. `ShouldAllow` is the reference: it quantifies over the candidates and knows no loop, order or priority.

### PermissionCache

`permissions`, `roles`, `grants`, `held`, `removed` are the rows (`permissions`, `roles` without `deletedAt`, `role_permissions`, `user_roles`, removed memberships), `cache`
the entries `permissions:<user>:<organization>`. Versions are not counted: `current` has the users holding an access token of the versions their row has now.

| Code | Actions, in order |
|---|---|
| `RoleService.remove`, `setPermissions` | `RemoveRole` or `SetPermissions` - `FindMembers` - `BumpVersions` - `FindHolders` - `Invalidate` |
| `assignToMembership`, `revokeFromMembership` | `AssignToMembership` or `RevokeFromMembership` - `Invalidate` |
| `PermissionService.remove` | `CountUsage` - `RemovePermission` (the database cascades to `role_permissions`) |
| `resolveForMembership` through `getOrSet` | `Miss` - `Load` - `Store` |
| `create` of roles and permissions, removal and return of members, token issue | one action each |
| the same, through a route of this organization for a membership of another | `ReassignElsewhere` - `Invalidate` |
| `JitProvisioningService.assignRoles` | `Provision` (deletes no entry, increments no version) |

Every Redis command may be lost (`CacheService` swallows the error): a `get` finds nothing, a `set` or a `del` does nothing. Two ghosts: `unaware` has the users with a current token
whose permissions have changed since it was issued, `excused` those whose entry one of seven accidents may have left stale (it was stored late, a request died, a command was lost, a permission was removed while a role
got it, single sign-on gave roles, the member returned, a role was given or taken through the route of another organization).
The last one is an omission of the code: the routes of roles never ask whether the membership is of the organization in the path, and delete the entry of the user there (`Outdated`; `role.service.ts:162-224`).
`own` says that it is; otherwise `AssignToMembership` and `RevokeFromMembership` change a membership of the organization modelled and delete nothing here, and `ReassignElsewhere` does the reverse.

### AccessGuard

`AuthorizationGuard.canActivate` for one member, beside `PolicyService` and `MembershipService.updateAttributes`. `policy` has the rows, `facts` what holds of the member, `entry` the
entry of the attribute cache. A condition is a set of facts here; `PolicyEvaluation` has the rest. `req[r]` keeps what a guard has read; the ghost `standing[r]` the DENYs that applied, by the row of the member and by the cache, ever since the request came.

| Code | Actions, in order |
|---|---|
| `canActivate` | `Arrive` - `LoadResource` - (attributes) - `Snapshot`, then for each permission `ReadPolicies` - (attributes) - `Evaluate`, then `Conclude` |
| (attributes): `resolveAttributes` | `HitFacts`, or `MissFacts` - `StoreFacts` |
| writes of `PolicyService` | `CreatePolicy`, `UpdatePolicy`, `RemovePolicy`, `ChangeConditions` or `Reassign` - `BumpVersions` - `Invalidate` |
| `updateAttributes` | `UpdateAttributes` (deletes no entry, as in the code) |

The system policies can be changed by `ChangeConditions` and `Reassign`, as in the code. Decisions are computed where the snapshot they use is read.

### OneTimeTokens

`token` has the rows of both token tables of one address (`usedAt`, past `expiresAt`), `mailed` those a mail job carries, `history` the `password_history`. `past` (all passwords ever set) and four sets of tokens are ghosts.

| Code | Actions, in order |
|---|---|
| `register` | `Register` (the look-up) - `CreateUser` (the transaction) - `Mail` |
| `verifyEmail` | `FindVerification` - `VerifyEmail` |
| `requestPasswordReset` | `RequestPasswordReset` (the rows `updateMany` sees) - `Issue` - `Mail` |
| `resetPassword` | `FindReset` - `TakeReset` - `EnsureNotRecentlyUsed` - `SetPassword` |
| `changePassword` | `ChangePassword` - `EnsureNotRecentlyUsed` - `SetPassword` |

`SetPassword` trims the history in the same step: the transaction begins by updating the row of the user, so two of them follow one another.

### SocialLogin and SamlLogin

`stored` and `owner` are the state parameters in Redis and the `oauth_accounts` rows; `status` tells users without a row, who may sign in, and who may not. `relays` and `seen` are the relay states and assertion ids in Redis, `ssoConfig`, `samlUser` and `member` the rows
the ACS reads and writes. In both, a key is looked up in one call and deleted or set in the next, and each call may be lost.

| Code | Actions, in order |
|---|---|
| `beginLogin`, `beginLink` | `BeginLogin`, `BeginLink` |
| `handleCallback` | `ReadState` - `DeleteState`, then a login or a link |
| `loginOrSignup` | `FindAccount` - (`FindUser` - (`CreateUser`) - `Attach`, or `PersistTokens`) - `OpenSession` |
| `linkAccount` | `CheckIdentity` - `CheckProvider` - `Link` |
| `unlinkAccount` | `FindLinked` - `Unlink` |
| `beginSpInitiatedLogin` | `BeginSpInitiatedLogin` |
| `handleAssertion` | `HandleAssertion` - `CheckRelay` - `DropRelay` - `CheckReplay` or `RefuseReplay` - `Remember` - `Provision` - `OpenSamlSession` |

`linked[r]` is a ghost: the users an identity was linked to since request `r` came. The other ghosts record which races and lost commands there were.

## 3. What is checked

| Run | Bounds | Shows |
|---|---|---|
| `sessions` | 2 sessions, 3 refresh tokens, 2 requests, versions and passwords to 1; either 1 user acts, or 2 users over 2 tokens without expiry, locks or password changes | a session reported over grants nothing; every live session has a live token; revocation takes all tokens; only the owner revokes, and a password change spares the session that asked for it; dead access tokens stay dead; `AuthSessions` implements `SessionLifecycle` |
| `revocation_concludes` | 1 user, 2 sessions, 2 tokens, 2 requests, versions and passwords to 1; no crash, no lock, no expiry | a bulk revocation that does not die reaches every session it promised, whatever is opened, rotated and revoked meanwhile |
| `lockout` | 3 requests, a limit of 3, counts to 5 | no lock without cause; counts reached for good are kept, and taken on by each failure but those in flight; guessing by login ends |
| `mfa` | 2 users, 2 challenges, 2 secrets, 2 backup codes, 2 requests, a limit of 2 attempts | a session needs a factor of its own user; attempts, sessions per challenge and sessions per backup code are bounded by the requests that race; enrolment stays |
| `memberships` | 2 roles, both of the slug `admin`, 1 pending invitation at a time, 2 requests; either 1 user with 1 token, `permissionsVersion` to 3 and `attributesVersion` to 2, or 2 users, versions to 2 and no token | a token that passes names its user's roles, but for those single sign-on has just given; a deleted role is in no such token; outdated tokens stay outdated; `Memberships` implements `LiveRoles`; a removal takes the last administrator only if the rows counted have changed since or counted one administrator twice |
| `policy_evaluation` | 6 seeded and 8 other policies, 3 of them resolved at a time; 2 members and none, 2 resources, 2 questions, 2 permission sets | the loops decide as the reference does; suspended members are refused; a missing attribute satisfies a negation, what asks for it, and, if null, a comparison with what zero satisfies, and nothing else; in development a refusal is explained |
| `permission_cache` | 1 user, 2 roles (1 system), 1 permission, 2 requests | an entry is stale only by one of seven named accidents; changes outdate tokens; the cache comes right in the end |
| `access_guard` | 1 policy that may be written in 5 ways, 1 fact, 2 routes (`ALL` with a permission; `ANY` with a permission, a slug and ownership), 2 requests | a DENY that stands throughout refuses in mode `ALL`; the attribute cache comes right in the end |
| `one_time_tokens` | 3 tokens, 3 passwords, 2 requests, a history of 2, 3 changes | a link sets one password; a new link ends the ones before; recent passwords are refused; each but for a race between two requests |
| `federated_login` | social: 2 users, 2 identities, 2 states, 2 requests; SAML: 2 assertions (1 without id), 1 relay state, 2 requests | a state starts one flow, an assertion opens one session, each but for a race or a lost command; sessions belong to who the identity is linked to; without IdP-initiated logins every session was asked for |
| `reuse_kills_family` | 1 user, 1 session, otherwise as `sessions` | **violated**: a replayed token leaves its family alive |
| `lock_is_temporary` | as `lockout` | **violated**: a user whose lock duration has passed is refused as locked |

**Bounds.** Every interference in the code is between two requests on one row (or one session and its
tokens), so two requests show it; three tokens are the original and the two that two racing rotations
issue; two sessions are the caller's and another one. One increment of a version tells old from
new. `sessions` takes two users as far as one may end what the other opened, over fewer tokens (`TwoActWithLess`), and one user further (`OneActs`). The lockout needs a third request for a stale write to undo a lock that two others reached,
and a limit of three for the count to go back and still be short of it. `MaxCount` exceeds the limit,
so that an account reactivated by single sign-on, whose count is not reset, is explored too.
In `mfa`, two attempts at the limit of two and two requests are enough to pass the limit, and two secrets or backup codes to replace one
while it is being checked. Challenges and factors are rows that can be created once, so their number bounds the histories.
In `memberships` the properties of tokens are about one token and the row of its user, so one user and one token that may be signed at any moment
are enough; an invitation's id is used again once it is over, so a member can be invited, removed and invited once more. A role is given, named by a token
and deleted within three values of `permissionsVersion`. The last administrator needs two users and no token: `MCMemberships` has a `scene` for each of the two, chosen at the start.
Both roles have the slug `admin`, the system's and the organization's own, since a slug matters to the count of administrators alone; one of the two users may hold both.
The user of the first is offered and provisioned the organization's role (the system's differs only in that nobody deletes it), the users of the second become administrators by assignment.
In `policy_evaluation` three rows hold a DENY, an ALLOW and one that matters to their order; the rows of `MCPolicies` use every operator, attributes that are absent, null,
of another type or converted, and conditions that compare two attributes. In `permission_cache` the entry of one user for one permission is present, absent or stale, and roles decide it through being granted, held, changed or deleted;
two roles let it change through either. In `access_guard` one policy can turn into any other, so a second adds orders but no new decision. `federated_login` explores social and SAML logins separately (`half`): they share no state.
`MaxVersion`, `MaxEpoch`, `MaxCount`, `MaxPermissions`, `MaxAttributes`, `MaxTokens`, `MaxRows`, `MaxChanges` and the set `Written` are the only bounds of the modules, each in the guards of the actions that count or in the initial states; `MCMemberships` adds the limits of its scenes.

**Symmetry** is used in runs of safety and step properties only.

**Deadlock** is checked in every run.

**Fairness.** `CalmSpec` (`MCAuthSessions`) gives each request weak fairness on its next step, because Node.js runs
every pending continuation; it excludes crashes, since a request that has died is not resumed by anything, and leaves out locks and expiry, at which a revocation does not look once it has begun.
`LoginGuessesEnd` needs none: it says that `POST /auth/login` compares only finitely many wrong passwords once nobody else logs in. `PermissionCache` and `AccessGuard` are
fair on each request's steps, as above, and on the end of an entry's lifetime, which Redis sees to; crashes and lost commands stay possible. What they promise holds once the rows
no longer change (`<>[][FALSE]_rowVars`): the code gives a reader no guarantee before.

The mutants (operators named `Definition_Mistake`) are plausible slips in the code, one for each property.

## 4. What is proved

TLAPS proves, for any number of users, sessions, tokens and concurrent requests and any bounds:

* `AuthSessionsProofs`: type correctness, every property of `sessions`, the refinement of
  `SessionLifecycle` among them; and that a request forgets no session it has set out to revoke (`PromisesAreCarried`). The only assumption is `NoneAssumption` (null is no row).
* `LoginLockoutProofs`: type correctness, `NoLockWithoutFailures`, `OnlySuccessRewinds`,
  and that counts move on while nobody succeeds (`GuessesGetAhead`), for any limit of at least one (`AttemptsAssumption`; `env.validation.ts` enforces it).
* `MfaLoginProofs`: type correctness and every property of `mfa`, for any finite number of concurrent requests and any
  limit of at least one. `MfaAssumption` adds that null is no row and that a TOTP secret is no backup code.

* `MembershipsProofs`: type correctness, every property of `memberships` and the refinement of `LiveRoles`, for any number of users, roles, invitations, requests and
  tokens. `MembershipAssumption`: `Admin` is one of the roles of its slug, and null is no row and no status.
* `AuthorizationProofs`: every safety property of `policy_evaluation`, for any policies, conditions, priorities, attributes and conversions, as long as a number or
  a date comes from `Number` and `Date`, and what comes from JSON has no undefined element (`ConversionAssumption`);
  type correctness of `AccessGuard`, its `StandingDenyRefuses`, and that the staleness of its cache runs out once the attributes stay (`StaleFactsRunOut`), for any policies, routes, resources, facts and concurrent requests
  (`GuardAssumption`: null is no row, entry or permission).
* `PermissionCacheProofs`: type correctness, `StaleOnlyIfRaced` and `ChangesOutdateTokens`, and that staleness runs out once the rows stay (`StalenessRunsOut`), for any number of users, roles, permissions and requests (`CacheAssumption`).
* `OneTimeTokensProofs`: type correctness and every property of `one_time_tokens`, for any number of tokens and requests and any limit of the history, 0 included (`TokenAssumption`, `RowAssumption`).
* `FederatedLoginProofs`: type correctness and every property of `federated_login`, for any number of users, provider accounts, states, assertions, relay states and requests
  (`SocialAssumption`, `SamlAssumption`: null is no value, and an account has a provider and an address).

**The argument for sessions.** That an ended session grants nothing is not inductive: a request may
report success for work it did, or found done, several steps ago. `IInv` therefore carries what each
request knows and owes. `KnowsItsSession`: the session it acts in belongs to its user, and the version it
will sign is not ahead of the user's. `RunsItsOperation`: which operation can be at which step.
`KeepsItsPromise`: what it is going to report over is its own user's, and just before the revocation
each doomed session is either revoked already or among those about to be. With `ended \subseteq
revoked`, which no step can falsify because a revocation is never undone, the property follows from the guard
of the rotation and the check of `JwtStrategy`. `LiveSessionHasLiveToken` is inductive together with
`StoreInv`: a rotation spends one token and issues another, whatever else has been spent meanwhile.

**The argument for the lockout.** A stored count is never ahead of the number of wrong passwords, and
neither is one that a failed login is about to store (`CountInv`), so a lock has been earned.
Counts do go backwards when logins overlap; what does not go backwards is the least of the stored count and of
the counts about to be stored (`AtLeast`). Above it each failed login stores a
greater one, but for those in flight that read an older count (`Behind`), and no new ones join these; which is why guessing ends.

**The argument for the second factor.** The service guards nothing against two verifications at once, so the question is what
a race can gain. A request that has read the challenge and not yet recorded its attempt is an attempt to come: `attempts`
plus the number of such requests stays below the limit plus the number of requests (`CountInv`), because
a request gets in only below the limit and recording moves one unit from the second number to the first. In the same
way the sessions opened through a challenge plus the requests at it never exceed the requests there are: the first
session is preceded by the write of `consumedAt`, and from then on requests only leave. Backup codes follow the same argument with `usedAt`. That
the factor is the user's own (`RequestOK`) survives every concurrent replacement because ids and hashes are never given to another
user (`FactorInv`, and `Grows`, which every step satisfies).

**The argument for memberships.** Every step moves the rows on (`MoveOn`): versions never decrease, a change of roles increments
`permissionsVersion` in the same transaction, and a removed member comes back only with another `attributesVersion`. As no version that was read is
ahead of its row (`VersionsPast`), a token or a request that still matches the row has seen the roles the row has now (`RolesExact`): the version
is read before the roles, so a change in between can only make the token outdated. Single sign-on is the exception: as long as the version stays the roles only grow, by roles that are `unannounced`
(`RolesGrow`), so a token lacks these at most and never names one its user has lost. A role deletion (`DeletionFinds`) therefore finds the user of
each token that names the role and is not outdated, and later tokens no longer name it. `OutdatedStaysOutdated` is the same monotony; for the last administrator,
`SteadySafe` carries the count from the check to the write: more than one row, none of which the removal of somebody else touches, so if nobody is left they were all of the member removed. For the refinement (`TokensAreLive`) the grants of `LiveRoles` are the tokens that are not outdated:
signing is a grant of the roles of this very moment, late ones left out or not, when neither version has moved since it was read, and no grant at all otherwise; single sign-on gives roles late and leaves the grants; any other write of the row
outdates all tokens of its user and leaves the rest (`OthersStayHonoured`).

**The argument for decisions.** A candidate is still ahead, at hand, matched, or explained by a condition that failed (`Accounted`); what matched passes all its conditions, what is explained does not (`FailuresFail`);
the loop goes on only while no DENY has matched (`Undenied`) and ends with one or with nothing ahead (`Exhausted`). At the end the matched policies are therefore all the matching ones, or contain a DENY, which is all the reference looks at. What a missing attribute satisfies
goes down to each operator: no conversion makes `undefined` or null anything else (`CoerceKeeps`), and the operators that remain accept neither of them, but for null as zero in a numeric comparison (`OperatorsNeedValues`).

**The argument for the guard.** A standing DENY is the same row all the time and applies by the row of the member and by the cache, so whichever of the two a request reads, and whenever, the conditions hold in what it has read, and the rule
is in the policies it has read (`Sees`). Each permission of the route the DENY is about is therefore still to be asked, being asked, or has left a FALSE among the decisions (`Attended`); at the end none is left to ask, and mode `ALL` refuses. Steps of other requests either leave
rows, attributes and cache alone or let the ghost drop what they disturb (`StaysServed`). `GuardMayAbstract` ties the two modules: what the loops of `PolicyEvaluation` decide is what `AccessGuard` takes as one step.

**The argument for permissions.** `StaleOnlyIfRaced` and `ChangesOutdateTokens` are inductive with the types. A step that changes what a member may do makes the request that takes it responsible: the member is among the holders
it is about to look up, whatever happens to them before, or one of the accidents happens. Each later step of the request hands the responsibility to the next, until the version is incremented and the entry deleted. What the accidents leave behind does not last: while rows stay, the copies loaded before the change (`Late`) only get fewer, and an entry becomes stale only by using one up.

**The argument for one-time tokens.** Two requests that hold the same token both before it is taken, or both after, have found it together (`PairOK`), because who finds it later finds it unused.
A request about to issue a link knows every unused link or was overtaken by it (`RequestOK`). The history agrees with all passwords ever set on its newest `k` entries for each `k` up to the limit (`HistoryOK`).

**The argument for federated logins.** All three single-use keys are looked up in one call and deleted or set in the next. A request between the two (`Missed`, or at `"delete"`, or one that `Knows` its relay state) is alone there for
its key, or the ghost says which race or lost command let another in (`AssertionPairOK`, `RelayPairOK`, the last part of `StateInv`); once past, the key itself keeps later requests out (`AssertionOK`, `RelayOK`). For the owner of a session,
`CallOK` says that what a callback has read of the owner is among those it had while the callback ran, or is the user of the address.

The inductive invariants were also checked by TLC on the instances above. Only model-checked are the liveness properties (`RevocationConcludes`, `LoginGuessesEnd`, `ChangesTakeEffect`, `AttributesTakeEffect`),
which are beyond this prover. The safety each of them rests on, what a step brings nearer or never undoes, is proved: `PromisesAreKept`, `CountsAreKept` with `CountsMoveOn`, `StalenessEnds` and `StaleFactsEnd`.

## 5. What the models found

Checked as a violation:

1. **Reuse detection has no effect.** `rotateRefreshToken` revokes the family through the transaction
   and then throws inside it (`session.service.ts:96-106`): everything is rolled back.
2. **A lock is permanent** (`LockIsTemporary`, `RefusedAsLocked`; `auth.service.ts:150`). `docs/configuration.md:64` speaks of a lock duration, 15 minutes if nothing else is set, and the refusal
   of an account that is "temporarily locked"; but `status = LOCKED` refuses logins whatever `lockUntil` says, and only a single sign-on login sets `ACTIVE` again.

Behaviours of the models that contradict a text of the repository. They follow from reading the actions named and are not runs of their own:

3. **A refresh token can be used twice** by two refreshes that read it before either commits (`PresentRefreshToken`, `Rotate`; `session.service.ts:132`, `postman/README.md:46`).
4. **A session opened with the old password can outlive a password reset** if its login compared the password before (`Login`, `OpenSession`; `auth.service.ts:200`, `docs/auth.md:81`).
5. **A lock can be undone by a stale failed login** (`HandleFailedLogin`; `auth.service.ts:450`, `docs/auth.md:144`), together with the count:
   `failedLoginAttempts` is also not the number of failures, since overlapping ones are lost.
6. **The lock is checked before the password is compared**, not after it (`GuessWrong`, `EnterPassword`; `auth.service.ts:150`, `docs/auth.md:146`).
7. **The last administrator can be removed** when the other one is removed or suspended after the count (`CountAdmins`, `Remove`; `membership.service.ts:159`, `docs/authorization.md:207`);
   and without any race when this administrator holds a role of the organization's own with the slug `admin` beside the system's and so counts as two (`AdminRows`, `CountedTwice`). Such a role also counts by itself, whatever it permits.
8. **The attribute cache is not invalidated** when a membership is updated (`UpdateAttributes`; `docs/authorization.md:184`), only when a policy changes.
9. **`attributesVersion` does not follow `status`** (`docs/authorization.md:41`). The check of `status` itself makes up for that, until the member is made active again and an old token passes once more.
10. **`same-organization-access` denies nothing**: it is an ALLOW (`SameOrganizationAccess`; `docs/authorization.md:192`).
11. **System policies and roles can be modified**, through their conditions, assignments and permissions (`ChangeConditions`, `SetPermissions`; `docs/authorization.md:248`).
12. **`@Authorization` ignores the permissions and policies it is given**, and in mode `ALL` a route without any decision admits (`Admits`; `docs/authorization.md:136`).
13. **DENY does not always win**: in mode `ANY` one permission that is allowed outweighs a DENY about another (`Admits`; `docs/authorization.md:3`).
14. **Assigning a policy does not restrict it**: policies of the own organization apply to everyone in it, assigned or not (`InForce`; `docs/authorization.md:82`).
15. **The last authentication method can be unlinked**: a user who signed up through a provider has a hash of the marker as password, which counts as a password (`HasUsablePassword`; `oauth.service.ts:222`, the description of `DELETE /auth/oauth/unlink/:provider`).
16. **Single sign-on changes roles and attributes without incrementing a version** (`Provision`; `docs/authorization.md:40-41`), and leaves the cached permissions:
    the access tokens of the member name the old roles until they expire, and `Permits` and the entry differ for up to its lifetime.
17. **A role given or taken through the route of another organization leaves the cached permissions** of the membership (`Outdated`; `role.service.ts:189` and `215`, `docs/authorization.md:180`):
    nothing compares the organization of the membership with that of the path, and the entry deleted is one of the latter.

Worth knowing, though no text forbids it. *Memberships*: a member who returns has the roles
of the former membership again; a suspension or a role revocation can take the last administrator without any race.
*Passwords*: `POST /auth/mfa/challenge` compares a password for any address, with MFA or without, and neither counts a failure nor looks at the count or `lockUntil` (`ReissueChallenge`; `mfa-login.service.ts:187-208`).
*Second factor*: a challenge and
a backup code can each open one session per racing request; a set-up that overlaps the verification of another turns MFA
off again, or has a secret enabled that was never verified; codes generated by two overlapping requests all stay valid.
*Permissions*: a permission removed while a role gets it disappears from the role with neither versions nor entries following; an entry stored late stays for its whole lifetime.
*Policies*: an attribute absent on both sides of `EQUALS` passes; null, an attribute that is not set in the database, is zero where numbers are compared, and so less than any positive one (`ReadAsZero`; `condition-evaluator.service.ts:161-171`); the seeded administrator policy matches any role whose slug contains `admin`, because the condition's type joins the roles into one string; the loader of organizations loads the active one whatever id is asked for.
*One-time tokens*: a refused password burns the reset link; a mail job lost after the commit of a registration leaves no way to another verification link.
*Federated login*: a provider account is linked before the status check refuses its user; the organization stored with a relay state is never compared; provisioning does not clear `deletedAt`, so a
removed member stays removed with status ACTIVE; the replay guard passes when Redis fails.

## 6. Not modelled

* What is trusted: bcrypt, hashes, signatures of JWTs, the SAML library, the providers of social logins, PostgreSQL and Redis as far as they answer.
* The 15-minute expiry of access tokens (it only refuses more) and user deletion (no code deletes users).
* The audit log: append only, read by none of the other components, failures swallowed.
* Mail beyond the job that is enqueued or lost: the processor reads no table and writes none.
* The MFA policy of an organization (it writes `organizations.settings` alone) and SSO-only enforcement (it reads and refuses): both make logins fail that the models let through.
* What a profile of an identity provider says of department and job title: to `AccessGuard` it is an `UpdateAttributes` like any other.
* Updating and deleting organizations, the status of an organization, the choice among several organizations at login.
* Controllers' DTO validation, filters, interceptors, the permission and tenant guards that only compare the token with the route, configuration and health checks: no state of their own.
* Lock waits and deadlocks inside the database: an abort is a request that dies.
