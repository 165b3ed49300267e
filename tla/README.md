# A TLA+ model of the SparkWeb plugin

SparkWeb is an Openfire plugin that lets browsers use an XMPP server over plain
HTTP: a REST API for requests, server-sent events (SSE) for what happens
meanwhile, and web push for browsers that are not there. This directory holds a
formal development of its server side (`src/java`) and of its own browser side (the
Swagger page with its service worker, the sample application with the SparkWeb
library): TLA+ modules, one per
component, that follow the code handler by handler; TLC configurations that check
them on small instances; and proofs, checked by TLAPS, of what matters most for
instances of any size.

Java and JavaScript sources are named without their directories; `PROJECT.json` has
the paths.

| Read this | to learn |
|---|---|
| [1. The system](#1-the-system) | the components, their state, their operations, and what is hard about them |
| [2. Module by module](#2-module-by-module) | how each model corresponds to the code |
| [3. The runs](#3-the-runs) | what TLC checks, within which bounds, and what it shows |
| [4. The proofs](#4-the-proofs) | what is proved, from what, and along which argument |
| [5. What was found](#5-what-was-found) | where the code does not do what its documents say |
| [6. What is not modelled](#6-what-is-not-modelled) | and why |
| [7. Plan](#7-plan) | what comes next, in which order |

Run a check with `tlc -config SessionRegistry_race.cfg MCSessionRegistry` and a
proof with `tlapm SessionRegistryProofs.tla`, in this directory. `PROJECT.json`
lists components, runs, the mutants that show each property can fail, the source
lines of every definition, hazards, findings and theorems.

## 1. The system

### 1.1 The parts

The server side runs in the JVM of one Openfire server. There is no lock in the plugin
apart from those Openfire's own objects have: servlet threads, the server's
threads and Jetty's heartbeat thread share plain and concurrent maps. The browser
side runs on one thread per page, and hands it over at every `await` and `then`; what
the pages of a browser share, they share between these points.

| Component | State it keeps | Operations | Correct when |
|---|---|---|---|
| **XMPP session registry** (`OpenfireConnection`, `SparkWeb.makeAccessToken`, `SparkWebAPI.loginUser/logoutUser`) | `users`: user name to connection; each connection's token, fields and Openfire session; `SparkWeb.tokens` | login, logout, expiry, the server closing a session | one session per user, created on demand, removed for good; no session out of reach; no connection shared by two threads that tear it down |
| **Event sources** (`WebEventSourceServlet`, `SparkWeb.emitEvent`) | `SparkWeb.webSources`: user name to an `ArrayList` of sources | open a source, heartbeat fails, emit an event | the list is the set of open sources; a session lives as long as someone watches, and not much longer |
| **WebAuthn** (`SparkWebAPI`, `UserRegistrationStorage`) | `requests`: user name to pending ceremony; three properties of a user | start and finish a registration, start and finish an authentication | an answer counts for the latest challenge only; what is stored is of one registration, the newest |
| **Web push** (`SparkWebAPI`, `SparkWeb.postWebPush`) | VAPID key pair and subscriptions in the properties of a user | fetch the key, subscribe, notify, be cleared by a user update | a complete pair is kept; an answered key stays the signing key; a notification is signed for the subscriptions it goes to, and goes to all |
| **Room affiliations** (`MUCRoomController`) | owners, admins, members, outcasts of a room; what other cluster nodes know | create, update, replace a list, add to it, remove from it, destroy | a list is replaced exactly; nobody else loses anything; the last owner rule does not get in the way; the cluster sees it |
| **Accounts, contacts, groups** (`UserServiceController`, `JustMarriedController`, `GroupController`) | Openfire's accounts, rosters, groups, user properties | register, update, rename, delete, contacts, group membership | a rename cut off anywhere harms nobody |
| Chats and rooms of a connection (`OpenfireConnection`) | maps `chats`, `groupchats` of a connection | send, set chat state, join, leave, post, invite | a request that is answered with success was carried out |
| Incoming stanzas (`SmackConnection`, `processMessageStanza`) | none of its own | a stanza of the server becomes an event | one event per message |
| Room activity (`SparkWeb.messageReceived`) | none of its own | notify members who are not in the room | each member once, and of the right room |
| Bookmarks (`Bookmark`, `BookmarkManager`, `BookmarkInterceptor`) | three database tables | create, change, delete; insert into private storage | a client sees the bookmarks meant for it |
| Workgroups, assistance (`OpenfireConnection`) | `assits`, offers, queues | agent and customer side of a help desk | nothing of the plugin calls them |
| One-time passwords, archive search, presence and roster reads, pubsub, meetings, uploads, previews, configuration, room information | see `PROJECT.json` | mostly requests that compute an answer | |
| **Swagger page** (`swagger-initializer.js`, fetch handler of `sparkweb-sw.js`) | `username`, `password`, `token` in the `sessionStorage` of a tab; passwords in the browser; an `EventSource` | sign in (token, authenticator, registration), listen, reload, log out | a page listens as the user it asked for, with a valid token, and comes back after a failure |
| **Push subscription and service worker** (`swagger-initializer.js`, `sparkweb-sw.js`) | the one subscription of the browser, the one the server has of each user, notifications shown | subscribe anew at every `onConnect`; show a notification, reply | what the server has of a user fits his key and reaches him; a reply is in his name |
| **Sample application** (`index.js`, `sparkweb.js`) | the global `sparkWeb`; user, password, token of an instance | log in at every click, listen, log out | it listens, and logs out, with the token it was given; stores only accepted passwords |
| Converse web components (`web-components.js`) | what the page shows | templates, a view switch, a menu | |
| Servlets, filters, entities; vendored helpers and bundles | none | | |

### 1.2 How they interact

    browser --REST--> AuthFilter --> SparkWebAPI --+--> OpenfireConnection.users --> Openfire session
       |                                           +--> SparkWeb.tokens, requests, webSources
       |                                           +--> controllers --> Openfire managers (users, rosters, groups, rooms)
       +--SSE--> WebEventSourceServlet --> SparkWeb.webSources <-- emitEvent <-- stanzas of the session, interceptors
       +<--push service <-- SparkWeb.postWebPush <-- user properties (keys, subscriptions)

* A **login** (`loginUser`, or a WebAuthn ceremony) makes a token, stores it in
  `SparkWeb.tokens` and calls `OpenfireConnection.createConnection`, which shares
  the connection of the user or opens a new one.
* An **event source** is opened with any valid token. The heartbeat thread notices
  that a source is dead; when the last source of a user has gone, it removes the
  connection, with its token.
* **Removal is recursive**: `removeConnection` disconnects, the disconnection runs
  `shutdown`, and `shutdown` calls `removeConnection`.
* A message from the server reaches the browsers by `emitEvent`, or, where a page
  asked for it, by web push.
* The **pages** of one browser share its stored passwords, its authenticator and one
  push subscription; the pages of one user share his session on the server. A page
  that is left logs him out; a page whose event source fails reloads, which signs in
  again.

### 1.3 What is hard

The hazards in `PROJECT.json` are the list to work from; each names its line. In
groups:

* **Interleaving**: check-then-act on `users`, `webSources`, `requests` and the
  user properties, none of it locked; plain `ArrayList`s and `HashMap`s shared by
  threads.
* **Recursion and teardown**: three parties take one connection down at a time.
* **Partial failure**: sequences of writes to Openfire (a rename is a dozen) with
  no transaction, loops that stop at the first element that fails.
* **Crash and restart**: pending ceremonies and sessions are in memory, credentials
  and keys in the database, written one property at a time.
* **Liveness**: a session must be given up when its browsers are gone; the mutual
  recursion must end.
* **Staleness**: a list read under one hold of a lock and used under another; a token
  kept across a sign-in as somebody else; a global read after an `await`.
* **Unreliable delivery**: answers that get lost after the server has acted on them, a
  network that `navigator.onLine` calls up when it is not, event sources whose end the
  server notices late.

## 2. Module by module

The modules share a style. `th[t]` holds the local variables of thread `t`, with a
program counter `pc`; an action is one access of a thread to shared state (one map
operation, one property write, one critical section, one call to Openfire) and is
named after it. Java's local variables keep their names where they can. Each module
has a section *Faults* with mistakes somebody might make; no specification uses
them, and each is shown to break a property (`mutants` in `PROJECT.json`).

Where the code is only right as long as calls for **one user** do not overlap, the
module has two next-state relations, `Next` with every interleaving and
`SerialNext` which starts a call only when no other call for the same user runs
(calls for different users still interleave). The properties say which one they are
checked for, and section 5 what happens under the other.

### SessionRegistry, UserSession

`SessionRegistry` is `OpenfireConnection.users` with the threads that log in, log
out, expire sessions or hear that the server closed one.

| Action | Code |
|---|---|
| `Login` | `makeAccessToken`: the token, `tokens.put`, the call of `createConnection` |
| `Lookup`, `Retoken` | `users.get(username)`; the token of the connection found |
| `Connect`, `ConnectFails` | a new connection, `connect` and `login`; `loginInternal` swallows the exceptions of the session manager, so that a connection may have no session |
| `Publish`, `Wire` | `users.put`, then the fields that are assigned after it |
| `Logout`, `Expire` | the two callers of `removeConnection` |
| `Take`, `Discard`, `Disconnect` | `users.remove(username)`, `users.remove(connection.getUsername())`, `connection.disconnect` |
| `Retake`, `Unwind` | a nested `removeConnection` of `shutdown`; the return of the outermost one |
| `Untoken` | `onClose`: `tokens.remove(connection.token)` |
| `ServerClose` | Openfire closes the session: `closeVirtualConnection`, `shutdown` |

The nested calls of a thread all do the same, so that the call stack is a number,
`calls`: one nested call from `shutdown`, and one more when there was a session to
close. Tokens are pairs of user and second, which is all a JWT of this plugin
depends on: two logins in one second get the same token.

`UserSession` is the abstract promise of `README.md:18`, "a user has a singleton
xmpp session in Openfire that is created on demand and removed when it expires":
open a session when there is none, close it for good. `ImplementsUserSession` maps
the sessions to the live sessions of a user's connections, and the ended ones to
the closed.

Left out: the content of the fields, resources (their collision within one
millisecond is a hazard without a property), anonymous connections of assistance
requests.

### EventSources

`SparkWeb.webSources` with the unlocked `ArrayList` of each user, in the parts another
thread can come between: `Add` (`modCount`, the read of `elementData`), `Room` (the
read of the size; a full array is copied), `Grow` (the copy becomes `elementData`),
`Store` or `StoreThrows`; `Remove` (find and shift) and `Truncate`. An array has a
length and an identity (`cap`, `era`), so that the races inside a list are there: an
element lost in an array that has been replaced, an `add` that throws because it is
past the end of an old one, a null slot, a size that is off or longer than the array,
an iterator that throws. `Opened` is `onOpen`,
`HeartbeatFails` to `ExpireSession` are `onClose` on Jetty's single heartbeat
thread, `Emit` to `Deliver` are `emitEvent`, whose loop ends at the first source
that fails. `Login`, `DropSession` and `ExpireSession` are whole operations here;
`SessionRegistry` has their inside.

### WebAuthn

The four endpoints under `/webauthn`. A ceremony is a challenge and is a number; a
credential is named after the ceremony that made it. `requests` keeps one pending
ceremony per user, of either kind, and keeps it after the answer. Starting a
registration removes the old credential (`RemoveId`, `RemoveKeys`), finishing one
writes three properties (`AddKey`, `AddId`, `AddCount`). A write that throws there is
only logged, and the call goes on to its token (`AddFails`); in the other calls it is an
answer of an error (`CallFails`). Browsers answer any ceremony issued to their user,
late, twice or never; a restart loses `requests` and every running call. The relying party library is external: it accepts an answer
to the challenge it is given for a credential it can look up.

### WebPush

`fetchWebPushPublicKey` makes a key pair on demand in four steps (read public, read
private, write public, write private). Any exception of it is swallowed: the answer is
then the public key it had by that time (`PutFails`), one half of a pair it had read
(`GenerateFails`), the key of the server, or status 404. `Subscribe` stores a browser's
subscription, made with a key that was answered. `Clear` to `ClearEnds` are the
`getProperties().clear()` of `PUT /user`, which removes keys and subscriptions one by
one; what that call puts back is left out. `Notify` to `Answer` are `postWebPush`: read
the pair, or fall back on the pair of the server, then loop over the subscriptions, up
to the first response (`Send`); an exception goes on (`SendFails`). `touched` is a
history variable: the users whose properties were cleared, or for whom a pair could
not be made or stored. `SerialSpec` has the browsers of one user fetch one at a time;
notifications, subscriptions and updates come at any time in both specifications.

### RoomAffiliations

`MUCRoomController`. The lock of the room is held at the pc `change`; `Unlocked` is
what a step needs that takes it.

| Action | Code |
|---|---|
| `Update` | `createRoom`: the room, made if need be, and what `setRoles` has to change |
| `Read`, `Apply` | `replaceAffiliatedUsers`, `addAffiliatedUsers`: the old list, under a first hold of the lock; what has to change, under a second, when the room may have gone |
| `DeleteAffiliation` | the one user it takes the affiliation from |
| `Give`, `Refuse` | one turn of a loop: Openfire changes the affiliation of one user, or refuses: it takes the last owner away (`Conflict`), or bans an owner or admin, who may be in the room (`MayBeInside`). Nothing is refused for want of rights: the controller acts as the room itself, with the rights of an owner |
| `Sync`, `Answer` | the end of the loops, `syncChatRoom`; the answer |
| `DeleteChatRoom`, `Grant` | the end of the room; an owner who changes an affiliation over XMPP |

`plan` is what the loops still have to give to whom. All the calls have their loops in
one order, `Loops` (owners, admins, members, outcasts, removals), and go through the
users of a loop in any order, as the code's maps do. `cluster` is what `syncChatRoom`
has told the other nodes.

### UserAccounts

The writes of `UserServiceController`, `JustMarriedController.changeName` and the
roster and group endpoints, one step each; a contact that a rename copies takes two to
four of them (`CreateItem`, `UpdateItem`, `AddToOther`, `UpdateOther`). `Abort` ends a call between any two (an
exception, a restart), users change contacts over XMPP meanwhile, and admins are
appointed in the admin console. Calls come one at a time. `MayChange` limits the
interference: the users a call works on do not edit their own contacts while it
runs, and nobody drops a contact that is just being made. Names, passwords,
subscription states and shared-group contacts are left out.

### SwaggerPage

The page of `swagger-initializer.js` in the tabs of one browser, with what the tabs
share: stored passwords (`saved`), the authenticator (`registered`), and on the server
tokens, one session per user and its event sources. A step is what a page does between
two awaits; where a request is made, its effect on the server and the answer are one
step, and a second disjunct of it has the effect and no answer.

| Action | Code |
|---|---|
| `Load` | `onComplete`: the user of the tab, a stored credential, or a prompt, which alone is remembered in the tab |
| `Refresh`, `Challenge` | `webAuthenticate` up to the first answer: a new token for the tab's, if it is a valid one **of this user** (`Refreshable`), or a challenge |
| `Assert` | the authenticator and `authenticate/finish` |
| `Confirm` | the `catch` block: register anew? The password is that of the credential, of the tab, or typed |
| `Register`, `Create` | the two halves of `webRegister`; the first drops the old credential on the server, nothing catches what fails |
| `SignedIn`, `Connect`, `Open` | `setupListeners`; the browser opens the source, finds its token refused, or does not get through; the servlet checks the token in one step and lists the source in another |
| `Probe`, `WakeUp` | `onerror` after `isOnline`; the `online` handler, which does not wait for it |
| `Leave`, `Reload`, `CloseTab`, `UserReload` | the `beforeunload` handler, and what the service worker answers (`Fetched`): nothing, without the server |
| `LogoutArrives` | `logoutUser`, late as it may be |
| `LateAdd` | `newEventSource` goes on for a page that has gone |
| `SourceCloses`, `ListTested`, `SessionExpires`, `TokenExpires` | the four parts of `onClose`, late as they may be, with anything between two of them |
| `Drop`, `Restart`, `NetworkChanges` | disturbances, `MaxLoss` of them |

`probe` is a field of its own because `onerror` runs beside the source, which the
browser reconnects meanwhile. `stale` counts the sources of a user whose browser has
gone and which the server still has, `late` those being opened for such a browser,
`closing` has the local variables of the `onClose` at work (one heartbeat thread).
`overlapped` is a history variable: the users of whom a source was opened or closed
while another one was. What the lists are worth then is in `EventSources`; here
`ListTested` lets the size test end either way for them. `net = "lying"` is a network that
`navigator.onLine` calls up while the server does not answer.

Where it abstracts: `createConnection` may leave a user without a session
(`SessionRegistry`), so `Issue` may too. A failed request is an exception in the page
whatever its status: the error body is not JSON for a request without an `Accept`
header, and `response.json()` rejects. The parameters of the address that
`getUrlParam` accepts only answer the prompt in advance. The title line of the chat
listeners, `urlify` and the Base64 conversions are left out.

### PushClient

The chain of promises a page starts at `onConnect`: `FetchKey`, `Look`
(`getSubscription`), `Unsubscribe`, `Subscribe`, `Put`; `Fail` is a rejection, a lost
request or a page that is left at any of them. Several chains, of any tabs and users,
work on the one subscription of the browser (`live`); the server keeps one of each
user (`stored`), because each page sends the resource `sparkweb-swagger`. `Subscribe`
is the Push API: the subscription that is there, when it was made with the same key;
a rejection, when with another. `Notify` is `postWebPush` and what the `push` handler
makes of it, `Click`, `Reply` and `Close` are the other handlers of the service worker.
The data of a notification, to whom a reply goes, is what its sender has put there
(`/webpush/notify`) or his name (`/webpush/message`), and is left out; its token is the
server's choice, and decides in whose name a reply is. `calm` says that a chain has had the browser to itself; it is a
history variable, no code has it.

### SimpleApp

`index.js` with the parts of `sparkweb.js` it uses: `Click` (a new instance, assigned
to the global `sparkWeb`), `Credentials`, `Post`, `Store` (`login`; each may end the
handler with an exception), `Open` (the
handler goes on, and reads the **global**), `Leave` (`logout`), `SourceFails`. Clicks
overlap, since the handler waits for the credential store and for the server.
`ChangePassword` is somebody else. `calm` is as above. `webAuthn` and the private
methods below it are not modelled: they cannot run (section 6).

## 3. The runs

The state counts are those of the instances in the `.cfg` files.

| Run | Module, configuration | Expected | States | Question |
|---|---|---|---|---|
| `registry_race` | MCSessionRegistry, SessionRegistry_race | pass | 190,899 | what holds in every interleaving |
| `registry_serial` | MCSessionRegistry, SessionRegistry_serial | pass | 170,176 | is the promise kept when a user's requests do not overlap |
| `registry_singleton` | MCSessionRegistry, SessionRegistry_singleton | violation | | is it kept when they do |
| `sse_race` | MCEventSources, EventSources_race | pass | 109,335 | what sizes the races in the lists leave, and whose sources an event reaches in spite of them |
| `sse_serial` | MCEventSources, EventSources_serial | pass | 634,122 | are the lists exact and sessions given up in the end |
| `webauthn` | MCWebAuthn, WebAuthn | pass | 746,529 | do overlapping, late and cut-off ceremonies leave one credential, and does only it sign in |
| `webpush` | MCWebPush, WebPush | pass | 2,294,279 | do answered keys work, are pairs kept |
| `affiliations_serial` | MCRoomAffiliations, RoomAffiliations_serial | pass | 406,114 | are updates and replacements exact, step by step |
| `accounts` | MCUserAccounts, UserAccounts | pass | about 2.9 million | is a rename safe wherever it stops |
| `swagger_page` | MCSwaggerPage, SwaggerPage | pass | 1,093,142 | does a page listen as the user it asked for, keep a valid token, and come back |
| `push_client` | MCPushClient, PushClient | pass | 714,829 | is the subscription the server has the right one, whoever else uses the browser |
| `simple_app` | MCSimpleApp, SimpleApp | pass | 212,816 | what survives two clicks at a time |

### What the properties say

* **registry_race** — `ExclusiveHolder`: a connection is registered under one name,
  or in the hands of one thread that builds it or takes it down, never both; so no
  thread disconnects what another has registered. `GoneForGood`: once out of the
  map and not about to be put there, never in it again. `CallsReturn` (liveness):
  `removeConnection -> disconnect -> shutdown -> removeConnection` ends.
* **registry_serial** — `SingletonSession`, `NoOrphanSession` (every live session can
  be reached), `TokenOfConnectionValid` (the token of a registered connection is in
  `tokens`), `NoDeadEntry` (a registered connection whose session Openfire has closed
  is about to be removed by the thread that closed it), `ImplementsUserSession` (refinement of `UserSession`).
* **sse_race** — in spite of every race between the parts of `add` and `remove`, a size
  is at least 0 and at most the number of sources (`TypeOK`); it may be more than the
  array is long, and then the next `add` or `remove` throws. `EventsStayHome`:
  `emitEvent` writes to the sources of its user only.
* **sse_serial** — `ClosedNeverListed` (a source whose `onClose` has returned is not in
  its user's list); `ListMatchesSources`; `NothingSkipped` (an event that got to the
  end of an undisturbed list reached each source); `WatchedSessionStays` (`onClose`
  never takes a session from an open source); `GoneUserForgotten` (liveness).
* **webauthn** — while the calls of a user come one at a time, `NewestOnly`: only the
  newest registration has a credential; `HandleFits`: what failures and restarts leave of
  the writes is never of two registrations; `SignedInByNewest`: only an answer to the
  newest challenge, with the credential of the newest registration, signs a user in.
* **webpush** — `GivenKeySigns`: until the properties of the user are cleared or a pair
  for him fails, a public key that was answered is half of the pair that signs, and
  `SignedForSubscribers`: a notification is signed with the key of each subscription
  there was when it was asked for. `PairKept`: whatever is cleared, fails or is
  interrupted, no fetch replaces a complete pair.
* **affiliations_serial** — `UpdateExact`: `setRoles` reaches the requested
  affiliations from any others; it is given up only where an owner or admin is to be
  banned, with those who were to be owners, admins and members done, and never for the
  last owner; `ReplaceExact`: a replacement that
  succeeds leaves exactly the replacements with the affiliation;
  `OthersKeepAffiliation`: none of its steps touches anybody else, even when it is given
  up; `OwnersReplaceable`: only a replacement of the owners by nobody is.
* **accounts** — `OldUserIntact`: until the last step the old user keeps contacts,
  groups and properties; `RenameComplete`: when the account is deleted, the new one
  has the contacts and groups, as long as the users of the call leave their own
  contacts alone (`MayChange`); `BystandersUntouched`: nobody else loses anything or gets
  anything but the new contact.
* **swagger_page** — `ListensAsUser`: the token a page listens with is one of the user
  it asked for, whatever token the tab has kept from another. `OpenTokenValid`: as long as a source is open its token is valid,
  whether the other tab has the same or one of its own, and although the steps of
  `onClose` for older sources and logouts of other tabs come at any time; unless a source
  of the user was opened or closed while another one was (`overlapped`). `Recovers` (liveness): while the network
  stays, a source that is connecting is open in the end, or the user has to decide
  something: the page does not hang, and the reload in `onerror` does not repeat for
  ever.
* **push_client** — `StoredSigns`: the server's subscription of a user was made with his
  key, although the browser has one subscription for all users; `CalmReaches`: a chain
  that was alone and ended well leaves the live subscription with the server;
  `ShownToConnected`: from then on, until somebody connects again, the browser shows
  notifications for its user only, whoever else the server has subscriptions of.
* **simple_app** — `StoredAccepted`: only passwords the server has accepted are stored;
  `CalmListens`, `CalmLogsOut`: a click that no other one overlapped listens with the
  token it was given, and is logged out with it.

The type invariants of `RoomAffiliations`, `WebPush`, `SwaggerPage`, `PushClient` and
`SimpleApp` are not in their runs: section 4 has them proved.

### Bounds, and why they are enough

| Constant | Value | Why |
|---|---|---|
| `Thread` (registry) | 2 | all the races here are between two calls; a thread is reused, so that any number of calls follow each other |
| `Conn` | 3 in `_race`, `_serial`; 2 for the violation | three are needed for a connection to be replaced while the one it replaced is taken down; connections are never reused |
| `User` | 1 where a user's own calls race, 2 where calls of different users interleave | users share nothing but the maps |
| `MaxSecond` | 1 in `_serial` | two logins with equal and with different tokens |
| `Source` | 2 in `_race`, 3 in `_serial` | in `_race` two adds, or an add and a removal, that overlap, which is every race two threads can have in one list; in `_serial` a list with something before, at and after the element that goes |
| `MaxToken` | 1; 2 in `SwaggerPage` | there a tab has a token of its own; what several tokens of one user do on the server is in `SessionRegistry`; the proofs of section 4 are for any number |
| `User` (event sources) | 2 in `_race`, 1 in `_serial` | two for an event that reaches a stranger; `_serial` is about the list of one user, and users share only the heartbeat thread |
| `DefaultCapacity` | 1 | of a first array: 10 in `java.util.ArrayList`; with 1, two adds make it grow and three (in `_serial`) make it grow twice; the proofs are for any capacity |
| `User`, `Tab` | 2, 2 (page) | a token or a password left by another user; a tab whose leaving concerns another |
| `Guest`, `Shared` (page) | one user, one tab | the second user, `Guest`, signs in in the tab `Shared` only, with an authenticator he has from the beginning, and gets the same token each time; the first user may be in both tabs, with two tokens, and registers in `Shared`. `Bound` in MCSwaggerPage says so: with both users free in both tabs the run takes TLC more than five minutes |
| `Typed` | `right` | a wrong password ends in the same branch of `Register` as a request that fails |
| `MaxLoss` | 1 | one restart, or one break of a source or the network, or one closed or reloaded tab, at any point; answers get lost without this bound |
| `Chain`, `MaxSub` | 3, 4 | three chains that overlap, each with a subscription of its own, and one that was there before |
| `Note` | 1 | notifications do not interact |
| `Instance` | 2 | a click and one that overlaps it, in any order; three take TLC two and a half minutes (4.8 million states) and show nothing else |
| `MaxCeremony` | 4 | two registrations and two authentications that overlap; a credential made, replaced and used |
| `MaxKey` | 2 | each user has a pair, or one user a second one, after a restart between the two writes or a user update |
| `Resource` | 1 | subscriptions are independent of each other but for the loop; section 5 uses two, for one that is not tried |
| `Jid` | 3 | one stays, one goes, one comes; all affiliations from every start, and the users of a loop in every order |
| `Name` | 3 | the old name, the new one, a contact |
| `Group`, `Key` | 1 | groups and properties are handled one by one, independently |

Where the instance is symmetric in a constant the run uses a symmetry set, except
in the runs with liveness properties.

### Fairness

* `FairSpec` of `SessionRegistry`: weak fairness of every step a thread has begun.
  A servlet thread that has been called is scheduled; nothing makes anybody log in,
  expire or close. The nested calls never wait for another thread, so that weak
  fairness is what the JVM's scheduler gives.
* `FairSerialSpec` of `EventSources`: the same, and heartbeats: Jetty sends one to
  each source every ten seconds, and one to a browser that is gone fails in the end.
  Nothing makes a browser go, or a user log in.
* `FairSpec` of `SwaggerPage`, and `MCSpec` of its instance, where the steps are those
  within `Bound`: weak fairness of the steps of each page: its scripts go on, and a user
  who is asked answers. Nothing makes anybody open, close or reload a tab, and the server
  need not notice that a source has gone.

Deadlock is checked in all passing runs but one: browsers can always ask for
something. `swagger_page` says `CHECK_DEADLOCK FALSE`: two tabs whose sources are open,
with the disturbances used up, have nothing more to do.

## 4. The proofs

All theorems are for any number of users, threads, connections, subscriptions,
keys, ceremonies, event sources, affiliated users, groups, tabs, chains and clicks, under the assumptions named in the
modules (`RegistryAssumption`, `SourcesAssumption`, `WebAuthnAssumption`,
`AccountsAssumption`, `AffiliationsAssumption`,
`WebPushAssumption`, `PageAssumption`, `PushClientAssumption`, `SimpleAssumption`: the
null values are none of the real ones, bounds are natural numbers, the event sources of
a run of the server are finitely many). `tlapm` checks each of them to the last leaf.

| Theorem | States |
|---|---|
| `SessionRegistryProofs!TypeCorrect` | `Spec => []TypeOK` |
| `SessionRegistryProofs!ExclusiveHolderHolds` | `Spec => []ExclusiveHolder` |
| `SessionRegistryProofs!GoneForGoodHolds` | `Spec => GoneForGood` |
| `SessionRegistryProofs!SerialSingleton` | `SerialSpec => []SingletonSession` |
| `SessionRegistryProofs!SerialNoOrphan` | `SerialSpec => []NoOrphanSession` |
| `SessionRegistryProofs!SerialRefinement` | `SerialSpec => ImplementsUserSession` |
| `SessionRegistryProofs!SerialTokenValid` | `SerialSpec => []TokenOfConnectionValid` |
| `SessionRegistryProofs!NoDeadEntryHolds` | `SerialSpec => []NoDeadEntry` |
| `EventSourcesProofs!TypeCorrect` | `Spec => []TypeOK` |
| `EventSourcesProofs!EventsStayHomeHolds` | `Spec => []EventsStayHome` |
| `EventSourcesProofs!ListMatchesSourcesHolds` | `SerialSpec => []ListMatchesSources` |
| `EventSourcesProofs!ClosedNeverListedHolds` | `SerialSpec => []ClosedNeverListed` |
| `EventSourcesProofs!NothingSkippedHolds` | `SerialSpec => []NothingSkipped` |
| `EventSourcesProofs!WatchedSessionStaysHolds` | `SerialSpec => WatchedSessionStays` |
| `WebAuthnProofs!TypeCorrect` | `SerialSpec => []TypeOK` |
| `WebAuthnProofs!NewestOnlyHolds` | `SerialSpec => []NewestOnly` |
| `WebAuthnProofs!HandleFitsHolds` | `SerialSpec => []HandleFits` |
| `WebAuthnProofs!SignedInByNewestHolds` | `SerialSpec => []SignedInByNewest` |
| `AdministrationProofs!TypeCorrect` | `Spec => []TypeOK` |
| `AdministrationProofs!OldUserIntactHolds` | `Spec => OldUserIntact` |
| `AdministrationProofs!RenameCompleteHolds` | `Spec => RenameComplete` |
| `AdministrationProofs!BystandersUntouchedHolds` | `Spec => BystandersUntouched` |
| `AdministrationProofs!RoomTypeCorrect` | `RoomSpec => []RoomTypeOK` |
| `AdministrationProofs!UpdateExactHolds` | `RoomSpec => UpdateExact` |
| `AdministrationProofs!ReplaceExactHolds` | `SerialSpec => ReplaceExact` |
| `AdministrationProofs!OthersKeepAffiliationHolds` | `SerialSpec => OthersKeepAffiliation` |
| `AdministrationProofs!OwnersReplaceableHolds` | `SerialSpec => OwnersReplaceable` |
| `WebPushProofs!TypeCorrect` | `Spec => []TypeOK` |
| `WebPushProofs!AnsweredKeySigns` | `SerialSpec => []GivenKeySigns` |
| `WebPushProofs!PairKeptHolds` | `SerialSpec => PairKept` |
| `WebPushProofs!SignedForSubscribersHolds` | `SerialSpec => []SignedForSubscribers` |
| `SwaggerPageProofs!TypeCorrect` | `Spec => []TypeOK` |
| `SwaggerPageProofs!ListensAsUserHolds` | `Spec => []ListensAsUser` |
| `SwaggerPageProofs!OpenTokenValidHolds` | `Spec => []OpenTokenValid` |
| `PushClientProofs!TypeCorrect` | `Spec => []TypeOK` |
| `PushClientProofs!StoredSignsHolds` | `Spec => []StoredSigns` |
| `PushClientProofs!CalmReachesHolds` | `Spec => []CalmReaches` |
| `PushClientProofs!ShownToConnectedHolds` | `Spec => ShownToConnected` |
| `SimpleAppProofs!TypeCorrect` | `Spec => []TypeOK` |
| `SimpleAppProofs!StoredAcceptedHolds` | `Spec => []StoredAccepted` |
| `SimpleAppProofs!CalmListensHolds` | `Spec => []CalmListens` |
| `SimpleAppProofs!CalmLogsOutHolds` | `Spec => CalmLogsOut` |

**Why a connection is never shared.** `ExclusiveHolder` alone is not inductive: to
see that `Discard` removes nothing another thread relies on one must know that a
thread with a connection in hand works for the owner of that connection
(`LocalsOK`), that the map has a connection only under its owner's name
(`RegisteredUnderOwner`), and that only a connection that was built has had a
session (`SessionHasOwner`), which makes the connection `ServerClose` names one with
an owner. `IInv` is the conjunction. The heart of it: a
connection enters the map once, from the thread that built it, and the removal that
takes it out hands it to exactly one thread.

**Why a connection is gone for good.** Of all steps only `Publish` puts a connection in
the map, and it puts the one its own thread has built, which by `IInv` no one else holds
or has registered. So every other step leaves the map as it is or makes it smaller
(`CalmStep`), and a connection that was taken out cannot be built a second time.

**Why serial requests give a single session.** `SInv` adds `Alone` (one thread per
user), `EntryOfUser` (while a thread connects, publishes, or takes a connection
down, the map has nothing for its user, and again after the last nested call) and
`NoOrphanSession`. With them a live session is either the registered one or in the
hands of the one thread that works for the user, when the map is empty: so there is
one at most. `EntryOfUser` is where serial requests are needed; with two logins it
fails between `Lookup` and `Publish`. The refinement then maps `Connect` with a live
session to `Open`, `Disconnect` of a live session and `ServerClose` to `Close`, and
everything else to a stutter.

**Why the token of a registered connection is valid.** `TokInv` adds to `SInv` that the
token of a connection is one that was made for its owner (`TokenOfOwner`,
`LoginToken`) and that `onClose` gets back a connection of its user (`FoundOfUser`).
By `Alone` and `EntryOfUser` nobody else works for that user then and the map has
nothing for it, so a token is removed only when the connection it belongs to is out of
the map.

**Why no connection that died at the server stays registered.** A session closes in
`Disconnect`, whose connection is out of the map, or in `ServerClose`, and then the
thread that hears of it is at `retake`, with that connection. `DeadInv` says in addition
that a connection about to be registered is not dead: this is where the serial requests
are needed, since with them no `ServerClose` comes between `Connect` and `Publish`. The
thread at `retake` works for the owner of its connection, so that what it removes is the
entry in question.

**Why a size never exceeds the number of sources, and an event stays with its user.** A
lost race can leave a list with a wrong size, and an array shorter than the size, so the
bound cannot come from what the list holds. `RoomLeft` bounds every size, and every size
a half-done add or remove still has in hand, by the number of the sources that some
thread has stored (`Stored`): a source is stored once (`OneEntry`), it is counted from
then on, and a thread that is about to store one has not been counted. `HomesOK` says
that whatever is in an array, the live one or a copy of it a thread is about to install,
in whatever order it came there, has the home of the source the list is named after, and
that the map leads a user to lists of that home only; an iterator takes its list from
the map (`ThreadOK`). The conjunction is `RaceInv`.

**Why the lists are exact when sources come and go one at a time.** `SerialInv` adds to
it that one thread at most has a source of a user in hand (`OneWorker`), that between
calls the list is exact (`Settled`), and at each point of a call how far it is from that
(`Working`): in `truncate` the elements before the last are the sources that stay, and
the last is one of them for the second time, or the source that goes; and an add works
on the array the list has, with its size and its elements. What `add`,
`remove` and its second half do to an exact list are lemmas about sequences without
repetition (`ExactlyAdded`, `ExactlyRemoved`). The loop of `emitEvent` is not
serialised: `Reading` says that as long as the list counts no modification, the
iterator has written to every element it passed. This needs an argument about the
second halves, which change the list after they have counted: what an add stores is
behind every iterator that could still end well, and what a remove clears is cleared,
not replaced (`ReadingFinished`). That `onClose` takes the session of no open source is
then `Working` at `expire`: the list was empty, so the sources are gone.

**Why an update of a room is exact in every interleaving.** The lock is held from the
plan to the end of the loops (`OneHolder`), and `RolesGiven` says that a user of an
update has the requested affiliation or is still to get it. The last-owner rule never
bites: while owners are still to be made none is taken away (`Earlier`), and afterwards
every requested owner has been made, and there is one. What is refused is the ban of an
owner or admin, and the loop over the outcasts comes after those of owners, admins and
members (`LoopOrder`): all of them are done by then.

**Why a replacement is exact when nothing comes between its two uses of the lock.**
`SerialRoomInv` has one call at work, and `Replacing` says that the list read is still
the list when it is applied, and that in the loops a user who is done has the
affiliation just when it was wanted, and one who is not is given it or loses it. Where
a change does come between, all of this is lost (section 5).

**Why only the newest registration has a credential.** A finish compares its answer with
the one pending request of the user, and `Newest` says that this is his newest
ceremony; so `verifyCreation` lets the newest pass and no other. What was stored before
is gone by then, because a start removes it before it puts its request (`LocalOK` at
`putCreation`), and because by `Alone` no finish of the same user is half-way meanwhile.
A restart empties the pending requests, which `Newest` allows, and leaves the stored
properties, which `KeysOwn`, `HandleOwn` and `NewestOnly` speak of. `HandleOwn` is to the
stored handle what `NewestOnly` is to the credential, so that `HandleFits` is the two
together. `SignedIn` carries from `verifyAssertion` to the token that the answer was to
the pending request. All of it is for `SerialSpec`: `Alone` is what the code does not
give.

**Why a rename costs nothing until it is complete.** `CallOK` has the two names apart and
both accounts in place while a rename runs, so what is written for the new name is
never the old user's. `RosterDone` says that every contact of the old user that is not
still to be copied is a contact of the new one and, if a user here, has the new name:
the steps of `RosterStep` end the call where they cannot do both, an item that has been
made for the new user is on his roster until its contact is seen to (`CallOK`), and what
others do with their contacts meanwhile does not take the new name away (`MayChange`). `GroupsJoined` says
the same of the groups. At the deletion nothing is left to copy, which is
`RenameComplete`. The type invariant itself is part of the argument: a group that does
not exist is empty, so that the groups collected before the copying are all there are.

**Why a fetch keeps a complete pair, and an answered key signs.** `PairInv` is about
everybody, whatever is cleared or fails: a thread that generates knows that its user has
no complete pair (`FetchFresh`), because the half it read as missing can come from
nobody else while it is the one that fetches for him (`OneFetch`), and clearing only
takes halves away; and the pair it writes has a number no stored half has
(`StoredMade`), so that half written it completes nothing. `KeyInv` adds, for users who
are not in `touched`, that a stored private key is the other half of the stored public
one (`PairStored`) and that what a fetching thread has read or written is what is stored
(`FetchKnows`). A restart between the two writes leaves a public key without a private
one, which is never answered and is replaced as a whole by the next fetch.

**Why a notification is signed for its subscribers.** Subscriptions were made with
answered keys (`SubscribedWithGiven`). So if there was one when the notification was
asked for, the pair was complete by then and stays, by `GivenKeySigns` after the step;
the two halves that are read one after the other are therefore the halves of the pair
the subscriptions name (`SendKnows`).

**Why a page listens as the user it asked for.** `PagesOK` says what a page has at each
point: from `start` on a user, a source only while it listens, then a token whose user
is its own. A page comes by a token in `Granted` only, and there the server made it for
the user of the ceremony, or exchanged one that `Refreshable` compared with the user.
That a token stays valid as long as its source is open is `TokensOK`, which begins at the
servlet's check of it. It rests on `CloseOK`: while an `onClose` is at work for a user who
is not in `overlapped`, no source of his is being opened, and once the list was found
empty none is open; and what it takes is the token of the session, which is its user's
(`SessionOfUser`), so never one that an open source of somebody else has. A second source
of the user in that time puts him into `overlapped`, where nothing is said about his
tokens; and `Restart` ends all sources with the tokens.

**Why the subscription the server has is the right one.** `InHand`: what a chain sends
was made with the key of its own user, because it either made it or was given it for
the same key. `CalmAlone`: while a chain is calm all others are at rest, so that the
live subscription is the one the calm chain has in hand (`CalmSends`), and no other
chain replaces what it has stored. `ShownToConnected` puts the two together: what is
shown was sent to the live subscription, which has the key of the calm chain's user, and
by `StoredSigns` a subscription the server has of anybody else has another key.

**Why the sample application listens with its own token.** `CalmLast`: the instance of a
calm click is the one the global has, and no other handler runs; so the handler that
goes on reads its own instance. `InHand` carries from `Post` to `Store` that the server
has accepted the password. `CalmLogsOut` follows, because the instance the page knows
when it is left is still the calm one (`SourceLate`: sources belong to logins that are
over).

**Model-checked only.** `CallsReturn`, `GoneUserForgotten` and `Recovers` are liveness properties
under fairness, which these provers do not reach. All invariants and action
properties of the passing runs are proved. That `RoomAffiliations` can be reasoned about
step by step, without induction over lists of users, is why its loops are actions of
their own.

## 5. What was found

The run that TLC must find violated; it quotes the sentence it refutes (`findings` in
`PROJECT.json`):

| Run | The document | The code |
|---|---|---|
| `registry_singleton` | `README.md:18`, a singleton session per user | two overlapping logins both find no connection and both open a session; the second `put` drops the first connection, whose session nobody can reach |

Three more properties state what a comment or an API text says and the code does not do.
Their definitions are in the modules; no run has them. To see TLC break one, name it in a
configuration:

| Property | The document | The code | Configuration |
|---|---|---|---|
| `EventSources!TokensExpire` | `WebEventSourceServlet.java:107`, the token expires with the last source | only the token the connection has by then is removed; those of earlier logins stay | `SerialSpec`, two sources, `MaxToken = 2`, as `PROPERTY` |
| `WebPush!AllNotified` | `SparkWebAPI.java:1256`, a notification goes to all subscriptions of a user | the first response of a push service, whatever its status, ends the loop (`SparkWeb.java:515`) | one user, two subscriptions, one thread, one key pair, as `INVARIANT` (11 states) |
| `RoomAffiliations!ClusterInSync` | `MUCRoomController.java:1210`, other nodes see the changes | a conflict in the middle leaves the changes made so far and skips the sync | `SerialSpec`, two names, two threads, as `INVARIANT` |

These properties hold only when calls for one user (or room) do not overlap, and no
document promises more, so that they are not findings. Replace `SerialSpec` by
`Spec` (`RoomSpec`) in the `.cfg` and TLC shows how each breaks:

* `EventSources`: `ListMatchesSources` and `WatchedSessionStays` (two first tabs each
  make a list, and one is lost; a tab opens between the size test and the removal of
  the list), `NothingSkipped` (two adds overlap, and the later store
  replaces an element an iterator has passed), `GoneUserForgotten`
  (a source behind a lost list never expires its user), and `ClosedNeverListed`, with two
  sources: an add makes the list grow and copies its array, `onClose` removes the other
  source, and then the copy, which still has it, becomes the array (22 states).
* `SessionRegistry`: `NoDeadEntry`, when Openfire closes the session between the login
  and `users.put`: the removal finds nothing, and the dead connection is registered
  (8 states).
* `WebPush`: `GivenKeySigns` and `PairKept` (two browsers fetch the first key at once,
  and one writes over the pair of the other; 12 states), and then
  `SignedForSubscribers` (16).
* `WebAuthn`: `NewestOnly` (13 states) and `HandleFits` (18), when a registration is
  started while another one is being finished, so that the old credential is added after
  the old ones were removed; `SignedInByNewest` (22), when one is started while an
  authentication is being finished.
* `RoomAffiliations`: `ReplaceExact`, `OthersKeepAffiliation` and `OwnersReplaceable`,
  when a second change falls between the two uses of the lock of a replacement (each
  with two users, in eight states). `UpdateExact` holds all the same.
* `UserAccounts`: without `MayChange`, `RenameComplete` (8 states): a contact the user
  adds after his roster was copied goes with the old account.

In the browser, too, what holds without overlap breaks with it:

* `SimpleApp`: drop `inst[i].calm` and both `CalmListens` and `CalmLogsOut` fail: the
  handler of the first click finds the instance of the second, whose login has not
  ended, and opens no source, or a second one with the same token; the first login is
  never logged out.
* `PushClient`: drop `chain[c].calm` and `CalmReaches` and `ShownToConnected` fail: one
  tab unsubscribes what another has just stored.
* `SwaggerPage`: drop `overlapped` and `OpenTokenValid` fails in 14 states: a tab has its token checked while the `onClose` of an older
  source is past its size test, and is open when session and token go.

And three things the models show without a property, because no document says
otherwise: a tab that is left logs out the user of other open tabs (`Leave`,
`LogoutArrives`); the `online` handler reloads without waiting for the server, since it
tests a promise, and may end on the browser's error page, as the service worker does
not return the copy it keeps (`WakeUp`, `Fetched`); a typed password is stored before
the server has seen it (`Confirm`).

One thing has no action in the models because the code has none: a session whose user
never opens an event source does not expire. The `exp` of its token is not checked.

## 6. What is not modelled

`PROJECT.json` lists every component with its reason. In short:

* **Not yet**: the components of the plan below.
* **No state, no decisions**: presence and roster reads, pubsub, meetings, uploads,
  previews, configuration reads, room information, servlets, filters, entities. They
  compute an answer or send one stanza.
* **Not run**: vendored helpers, and workgroup and assistance code, which nothing
  calls.
* **Not able to run**: `webAuthn` of `sparkweb.js` and the private methods below it.
  `webAuthn` calls `_webAuthenticate`, `_webRegister` and `login` without `this` (lines
  56, 67, 72) and ends with a `ReferenceError` before it has sent anything; the callbacks
  of the others use `this` and `registration` where neither is bound. Nothing calls them.
  The code they are a copy of runs in the Swagger page, and is modelled there.
* **What a page shows**: chat lines, links, the elements of `web-components.js`.
* **Not this program**: the bundled Converse client, Swagger UI, Openfire, Smack, Jetty, the WebAuthn
  and web push libraries. Where a model needs them (a closed session calls
  `shutdown`, the last owner stays, a heartbeat fails, a push service refuses), they
  are external definitions, taken from how this code uses them.
* **Data**: the text of messages, vCards, stanzas, JSON, the bytes of keys and tokens.

## 7. Plan

In this order; each is a module with its MC module, run and, where listed, proofs.

1. **Messaging**: `chats` and `groupchats` of a connection, from the moment it is in
   the map and not wired yet; `sendChatMessage` with its JSON fallback,
   `setCurrentState`, `joinRoom`, `leaveRoom`, `sendRoomMessage`, `inviteToRoom`, and
   the stanzas that come in. Properties: an answer of success means that it was
   posted (the API ignores the boolean), a post reaches a room only while in it, one
   event per invitation. Room addresses are built without the dot between service and
   domain, a candidate finding.
2. **RoomActivity**: `messageReceived` and `notifyRoomActivity`; every member is told
   once and of the right room.
3. **Bookmarks**: an edit is several statements without a transaction; insertion into
   private storage is exact and repeatable.
4. **Lookup by property and TOTP**: the cache of `getUsersByProperty`, the race of two
   requests for a secret (an extension of `WebPush`).
5. **Workgroups and assistance**: the wait of three minutes against a late accept.
6. **ArchiveSearch**: bounds and lazily read results.

Proofs to come: the safety half of `GoneUserForgotten` (a list whose sources are all
gone has a source a heartbeat can still fail for), and the invariants of the modules
above.
