# A formal model of the benchmark catalogue backend

TLA+ models of the NestJS backend in `src/`, the TLC configurations that check
them and the proofs TLAPS checks. The models are translated from the source;
`PROJECT.json` maps every definition to its lines, lists the runs, the hazards
and, for every property, a plausible mistake in the code that breaks it.

    tlc -workers 2 -config MCAgentWs.cfg MCAgentWs     # a run
    tlapm AgentWs_proofs.tla                           # the proofs of a module

## Inventory of the system

| component | state | operations | what is hard | what makes it correct |
|---|---|---|---|---|
| **AgentWsService** `conversations/agent/agent.ws.service.ts` | `sessions`: per conversation a socket, a buffer, an attempt counter, three timers, an emitter | connect, onMessage, send, close; socket events open, message, close, error, pong; reconnect, interval and pong timers | events of old sockets, timers that outlive their purpose, a link that dies silently, buffer against flush, `close()` during the handshake | one connection per session, timers that fit it, payloads in order and once, an end to waiting |
| **AgentMockService** `conversations/mock/` | `sessions`: the step of a script; queued `setImmediate` callbacks | as above, without a network | the script's place is kept live *and* found again from the history; callbacks outlive their session | both places agree |
| **ConversationsService** `conversations.service.ts` | `activeSessions` | startChat, sendUserMessage, handleAgentMessage, closeSession, findAll | every `await` lets other handlers in; a query may fail between two effects | what is seen is stored; what is stored is heard by the agent; completed means finished |
| **ConversationsGateway** `conversations.gateway.ts` | two maps, conversation to client and back | connection, disconnect, start_chat, send_message | displaced clients, disconnects during a call | the maps agree; a disconnect closes its own session only |
| **ConversationsRepository**, Prisma models | tables Conversation and Message | create, find, update | each call one statement, any of which may fail | (part of the above) |
| **Users** `users/` | table User | create, update, delete, find, paged list; AdminSeeder | check-then-act around a unique login; pages read while rows change | one account per login, no update of what is gone, no row missed for a new one |
| **Auth** `auth/` | tokens (JWT), the user kept on a socket | register, validate, login, guards for HTTP and WS | a token is signed an `await` after the row was read and outlives what it says | what it says was so of the account that showed its password |
| **Metrics** `metrics/` | MetricDefinition, MetricResult and looked-up rows | CRUD, paged list, lookups at each start, createMetricResult | partial updates validated against values read before; lost races turned into answers; several writes without a transaction | min at most max unless raced; true answers; a result refers to what exists, in the right suite |
| **Catalog** `catalog/` | BenchmarkTest with sub-datasets, runs, splits, links | create, update, soft delete, find | replacement of relations inside one transaction, concurrent with others; an `upsert` of the suite | lists replaced as a whole unless two updates race, no link to a deleted row, no option that finds nothing |
| **Catalog mapper** | none | toDto, `toPrimaryScores` | choice among several results per model | one score per model, primary first |
| **Configuration, start-up** | none after start | `parseIntWithFallback`, config factories | zero and negative values | positive numbers |

How they interact: the browser talks to the gateway by socket.io; the gateway
calls the service with a callback `onAgent`; the service calls the repository
(await) and `IAgentService` (no await), which is one of the two agent services
by `AGENT_MODE`; the agent's messages come back through the listener that
`openSession` registered, each in an asynchronous `handleAgentMessage` nobody
waits for. Catalog, metrics, users and auth are HTTP controllers over the
database; they meet the chat only in the guard on the socket. Every route but
login and registration asks for a token, and believes it: the users table is not
read again.

The code's own logic, and nearly all its concurrency, is in the chat. It is
modelled first.

## Modules

| module | stands for |
|---|---|
| `AgentChannel` | abstract specification: what a caller of `IAgentService` may count on for one conversation |
| `ChatLog` | abstract specification: what the chat promises about the stored conversations and about what is seen of them |
| `AgentWs` | `AgentWsService` for one conversationId |
| `AgentMock` | `AgentMockService` for one conversationId, with the calls the service makes |
| `Conversations` | gateway, service, repository and database, over an abstract agent |
| `Catalog` | services and repositories of the catalog and of the results entered against it, over the tables they share |
| `CatalogReads` | what the catalog shows: filtered list, filter options, scores of a test |
| `Listing` | the pages of the list endpoints: ORDER BY, OFFSET, LIMIT |
| `Accounts` | users, AdminSeeder, registration, login, tokens, the guards of requests and of a socket |
| `Metrics` | metric definitions, their range and unique name, the lookups, the answers |
| `MCAgentWs`, `MCAgentMock`, `MCConversations`, `MCCatalog`, `MCAccounts`, `MCMetrics` | instances for TLC |
| `AgentWs_proofs` | theorems about `AgentWs`, among them that it implements `AgentChannel` |
| `AgentMock_proofs` | theorems about `AgentMock` |
| `Conversations_proofs`, `ConversationsSafety_proofs` | theorems about `Conversations`, among them that it implements `ChatLog` |
| `Catalog_proofs` | theorems about `Catalog` and `CatalogReads` |
| `Listing_proofs` | theorems about pages, for any table |
| `Accounts_proofs`, `Metrics_proofs` | theorems about `Accounts` and `Metrics`, with those of `Listing_proofs` for their lists |

**AgentWs.** JavaScript runs a task to its end, so an action is one task: a
call, a socket event, a timer's callback. `session` is the entry in the
sessions map (`NoSession` when absent), a record with the fields of
`SessionState`; a timer is a Boolean. Because no handler touches another
conversation's entry, one entry is followed through its successive sessions.
`readyState` holds the state of every socket, `listened` those the service's
handlers are attached to. `ws` is modelled by what the code relies on:
constructor, `close`, `terminate`, a last `close` event, and the documented
abort of a handshake (an `error` event, then `close`). An agent configuration
is chosen once, in `Init`: the url may be empty, invalid or valid, and the pong
timeout may be longer than the ping interval (`overlapPings`). Time is not
counted, so the backoff's delays are not modelled; an armed timer may fire at
any moment. `accepted`, `written` and `heard` are history.

**AgentMock.** The script asks of an answer only whether it is the option "1",
so an answer is `"yes"` or `"other"`. The history is the saved answers. Several
calls of `start_chat` and `send_message` are at work at once, as neither gateway
nor service makes one wait for another; each is cut at its database calls
(`request`), where the other calls, disconnects, the last word's handler, failures
and a crash may come between. A `setImmediate` callback (`queue`) runs at the end
of the turn of the event loop that queued it. Until then only those calls go on
whose answer from the database was there when the first callback was queued
(`turn`); an answer that comes later waits for the next turn. `findById` of
`startChat` changes nothing, so that call starts where it opens the session.
`lastWord` stands for the handlers that are storing a final message. `answers` are
in the order of the commits; overlapping inserts may have their `createdAt` the
other way round, but only in a session that counts as `raced`. `raced` and
`endedRaced` are history: the session has had two calls at work at once (or began
with something left from before it), and such a session has ended the script.

**Conversations.** A handler is a record that says what it does, which
repository call it awaits and what it has read; `Query` is the database
executing the call, `startChat`, `sendUserMessage` and `processAgentMessage`
are what runs from an answer to the next `await`. The pool gives each query its
own connection, so queries end in any order. Messages are numbers in the order
they arise. The agent is a map of sessions with their listeners (`subscribers`,
in order, one per `onMessage`); it may speak whenever it has been spoken to, may
give a session up (`AgentMayGiveUp`, what `AgentWsService` does when its
attempts are exhausted) and handles nothing in a session it has not. An invalid
payload of the agent (`assertAgentPayload`) is logged and changes nothing, so it
is not an action. The author's id (`userId`) is stored and never read by the
chat. A crash leaves the database alone; `onModuleDestroy` closes the sessions
of a process that ends anyway and so is part of `Crash`.

**ChatLog** keeps of all this the two tables (`status`, `messages`), what clients
were `shown` and what the agent of each session was `told`; `attended` are the
conversations with a session. It has no handlers, no calls and no failures: a
conversation is created once, a message is appended to one that exists, the status
becomes `completed` when a final message is stored and never changes again, and a
message is shown, or sent to an agent, only when it is stored. `Conversations`
implements it with `attended` and `told` read off the agent's sessions (`Log`); what
an agent was told is forgotten with its session, one at a disconnect or a last word,
all at a crash (`Leave`). A message stored after the last word is allowed, since the
code does it: its handler has read the status before.

**Catalog.** An HTTP request runs from one database statement to the next, so an
action is one statement with the code up to the next `await`. Outside a
transaction a statement takes effect by itself: `createMetricResult` is five of
them (`createMetricResult`, `findTest`, `findSubset`, `saveResult`,
`listMetric`). `updateBenchmarkById` looks for the test and then runs a
transaction: the row, and for each relation given a `deleteMany` and a
`createMany`. Its statements interleave with those of others under READ
COMMITTED, PostgreSQL's default: what a `deleteMany` has found when it begins
(`seen`) is what it deletes, after the transactions that hold one of the rows;
`deleted` and `inserted` are held until the commit; a body with a field of the
row (`scalars`) locks the row, one that gives lists only does not, as Prisma
issues no `UPDATE` without fields. `createBenchmark` is a transaction that only
inserts and reads what it inserts, so it is one action; its insert fails when
the id or a key is taken. `Abandon` is every early end: a row not found, a
violated key, a deadlock the database breaks, a timeout, the end of the process.

The relations of a test are rows `[test, rel, value]`. "skills" stands for the
six lists of strings and the modalities, which are replaced and keyed alike;
metrics are looked up by name and created when missing; a sub-dataset has an id
of its own, whatever its test, and results refer to it. Lists without keys
(examples, references, links) are left out. Nothing sets the `deletedAt` of a
suite and nothing deletes a model, so neither is a variable. A metric is its
definition's id, a uuid, so that one that nothing refers to any more may be used
again (`Fresh`). A create needs a name, so its body has `scalars`. `asked`, `raced`
and `mixed` are history: the skills and sub-datasets last asked for; the lists that
another update has replaced during a request's transaction without the row's lock
between the two (`Overtaken`); and the lists last replaced by an update of which
that is true.

**CatalogReads** adds no step to `Catalog`. `findAllBenchmark` and
`getFilterOptions` are each one query of the skills; `OptionsFind` compares them in
every state. `toPrimaryScores` is a loop over a list of results in the order of
`benchmarkTestFullInclude`, ties in any order; `byModel(list)[n]` is its map after n
of them, a recursive function that a proof can be about. `ScoresMeetDefinition`
compares it with what the scores should be (of the primary results, or of all if there are
none, the newest of each model) on every list of up to four results, whenever a
listed test has results: `Catalog` does not follow their models and times.

**Accounts.** An HTTP request is cut at its database calls and at the signing of its
token; bcrypt's and the JWT library's work touches nothing shared, so the rest of
their awaits are no steps. An account's id stands for the moment of its creation,
so `createdAt` is distinct. A hash is a record that says which password it is of.
A database statement decides by the unique indexes what the checks before it could
not (`Unique`); `Abandon` is every early end. `socket` is `client.data.user`, kept
until the socket is closed. `tokens` are those that have not expired; nothing
revokes one. `stored` is history: all rows there have been, against which
`TokensEarned` holds each identity; `provenBy` is the password it was issued for.
The seeder runs only in development, so that elsewhere the first superuser comes
from outside the program.

**Metrics.** As `Accounts`, with what each request is told (`told`, for one state):
`updateMetricById` and `deleteMetricById` turn a lost race into the answer their
check would have given; `createMetric` does not and answers 500 (`"internal
error"`). `starting` counts the upserts of `onModuleInit`, after which the process
serves; `Crash` may come at any of them. The catalog also defines metrics
(`replaceMetrics`), without a range. Which results and lists go with a deleted
definition is in `Catalog`.

**Listing.** The lists a query may cut a page from are all those its `ORDER BY`
allows (`Sorted`): ties come in any order. `Hidden` is what a reader of pages does
not see although it was there all the time, when one change comes between the
n-th page and the next. A creation hides nothing (it may show a row twice);
a deletion, or a rename when sorted by name, hides one row at most. Sorted on a
column with ties (role, difficulty, language), pages may repeat or hide rows with no
change at all, so the properties are for the columns without. The columns
`displayName` and `updatedAt` are left out.

## Runs

| run | shows | bounds |
|---|---|---|
| `ws` | `AgentWs` has its types, one connection, timers that fit it; nothing is lost from, doubled in or reordered by the buffer; it implements `AgentChannel`; an answering peer is not cut off; a session connects or is given up; a silent peer is noticed | 2 sockets (the present one and one left closing), 2 payloads sent per session, 3 attempts, 2 listeners, 2 pings and 1 orphaned timer |
| `ws_crash` | violation: closing during the handshake ends the process | same |
| `mock` | a script restored from the history is where the live one was, a yes is a yes and an end an end, unless a session has had two calls at once | 2 calls at work at once, 6 answers (one more than the script can take) |
| `chat` | nothing is shown or sent that is not stored; completed means the last word is stored; it implements `ChatLog`; the gateway's maps agree; a session ends for a reason | 2 clients, 2 conversations, 2 handlers, 1 message, 2 listeners in all while both conversations have a session (`FewListeners`), failing queries, crashes |
| `chat_live` | the agent's last word closes the session; the agent of a session with no call at work has heard every message the user has stored | 2 clients, 1 conversation, 2 handlers, 2 messages, the agent may give up |
| `catalog` | an update replaces whole lists unless another races it without a lock; results and rows refer to what is there, and to the right suite; no suite is left empty; every filter option finds a test; the scores are those they should be | 2 tests, 2 suites, 1 sub-dataset, 1 metric, 2 bodies (one with the row, one of lists only) that between them give every relation, 2 requests; no step from a state in which lists of both tests are mixed (`OneTestMixed`) or two results stand (`OneResult`); lists of 4 results of 2 models |
| `catalog_subset` | violation: a result refers to a sub-dataset of another test | same, without `OneTestMixed` and `OneResult` |
| `accounts` | one account per login; tokens say what was so; changes only as asked; a creation hides no row from a reader of pages | 3 accounts ever, 2 requests, one body beside the administrator's, 2 updates (a rename to the other's name, password with role), 1 identity in tokens and on the socket at once |
| `metrics` | no request before the lookups are there; true answers; a range turned round by races only; changes only as asked; a write hides one row at most | 3 definitions ever, 3 bodies (one in order, one out of order, one with an unknown lookup), 4 updates (min, max, a rename, a refused one), 2 requests, crashes |
| `chat_leak`, `chat_init`, `chat_twice` | three violations, see below | 2 clients, 2 conversations, 2 handlers, 2 messages |

Why the bounds are enough: the hazards are races of two actors. Two sockets are
an old one and its successor; two handlers are every race of two calls at every
pair of awaits; with two conversations a client can move from one to the other
and with two clients one can displace the other. Two requests of the catalog
are every race of two transactions, or of one with a result being entered; two
tests are what it takes for a sub-dataset's id to move. That two bodies with
fields of the row are kept apart by its lock is not in the run, whose second body
has lists only, but in the theorem, which is for any bodies. Two requests on one account
or definition are every race of a check with a write; three rows are enough for a
page in the middle and for two logins that clash with a third. One identity is
enough for `TokensEarned`, which is about each by itself. The one message of
`chat` is a user's, or the agent's last word, which a handler of each listener
stores; that its invariants hold with more messages and listeners is what their
theorems say, as they hold for every value of the constants.

Deadlock is checked in `ws`, `mock`, `chat`, `catalog`, `accounts` and `metrics`. It is
not in the other runs of `Conversations`: without crashes the bound on messages and the rule that
a socket.io id is not used again while something remembers it let the model
stop, where the program would go on with further messages and fresh ids.
Symmetry is used with safety properties only.

**Fairness.** `AgentWs!Fairness`: Node fires armed timers; `ws` ends a handshake
(`handshakeTimeout`) and a closing socket (its close timer) in bounded time.
Nothing is assumed of the agent, which may refuse or fall silent, or of the
callers. `Conversations!Fairness`: the database answers a query and the event
loop resumes the handler; nothing is assumed of clients or of the agent.
`chat_live` sets `DbMayFail` to FALSE, because after a failed `updateStatus`
nothing tries again and the conversation stays active.

### Disagreements between code and comments

Each is a run of its own with a counterexample.

* `ClosingIsSafe` (`ws_crash`): `close()` takes the listeners off a socket and
  then closes it; while it is CONNECTING the `error` event that follows is
  unhandled and ends the process.
* `SessionHasOwner` (`chat_leak`): a client that leaves during `start_chat`
  leaves its session open, as it is bound only at the end of the handler.
* `InitComesFirst` (`chat_init`): a second `send_message` overtakes the `init`
  of a session the first one is opening.
* `SavedOnce` (`chat_twice`): listeners accumulate on an open session; each
  stores every agent message.
* `SubsetOfItsTest` (`catalog_subset`): a result's sub-dataset is checked to be of
  its test and, an `await` later, connected by its id alone, which may by then be
  another test's.

A counterexample shows one way to the disagreement. For the last four, theorems say
what all the ways have in common, by proving the property without it:

| property | holds as long as | theorem |
|---|---|---|
| `SessionHasOwner` | no query fails (`~DbMayFail`), a client stays connected until its calls have ended (`Staying`), and clients and conversations are paired one to one (`OneToOne`, `KeepsToItsOwn`) | `SessionHasOwnerWhileStaying` |
| `InitComesFirst` | no query fails and no two calls of clients are at work on one conversation (`OneCallAtATime`) | `InitComesFirstOneCallAtATime` |
| `SavedOnce` | a session has one listener at most (`OneListener`), through failing queries, crashes and any number of handlers | `SavedOnceWithOneListener` |
| `SubsetOfItsTest` | an id of a sub-dataset is used for one test only (`OwnedBy`), through any replacements between the look and the insert | `SubsetOfItsTestWhileIdsAreKept` |

The hypotheses are about what callers and the database do, and ordinary use meets
them: one page per conversation that waits for each answer, sub-dataset ids that stay
with their test. (A page that comes back when nothing remembers its old socket is the
same client again, as in `Forgotten`.) Users' messages need none: `UserMessagesSavedOnceAlways`.
`ClosingIsSafe` has one cause by its definition, a socket that is CONNECTING.

Three more disagreements are in the models and have no run that refutes them; the
property that is checked, and proved, says what is left of each.

* When `AgentWsService` has exhausted its attempts it drops the session
  (`agent.ws.service.ts:274`) and does not tell `ConversationsService`, whose
  `activeSessions` (`conversations.service.ts:44`) go on listing it. That the two
  agree is therefore false: what is sent meanwhile goes into nothing, and a
  `start_chat` finds the session active and connects nothing, until a disconnect or
  a last word on its way closes it. `NothingUnheard` says what still holds: the next
  session begins with the history, and so the agent of every session has heard all
  that the user has stored. It is for queries that do not fail (`~DbMayFail`): after a
  failed read of the history the session is there without an `init`
  (`conversations.service.ts:93`).
* The script's live place and its place in the history part when two calls are at
  work in one session. A client leaves while the insert of its `send_message` is in
  flight and comes back with `start_chat`, whose read of the history has the new row:
  `init` counts the answer, and the late message counts it again. The script is one
  step ahead, takes the answer to the next question for that to the last, and may say
  `finalAccepted` to a user who never said yes, or complete a conversation one answer
  early. The other way round, a message that goes ahead of `init` is ignored
  (`await_init`), and the script stays one behind. All three are in the model, and
  break `RestoreMatchesLiveUnlessRaced`, `AcceptedMeansYesUnlessRaced` and
  `CompletedMeansEndedUnlessRaced` when their condition on `raced` is dropped. The
  properties say that nothing else does: neither what failed, was closed or left
  queued, nor calls that overlapped in an earlier session of which nothing is left.
* `catalog.controller.ts:73` says that an update "replaces array-like relations". Two
  at once, of which one gives lists only (the DTO is a `PartialType`), have no lock
  between them, and the rows of both stay (`catalog.repository.ts:563`): TLC finds the
  lists `{a}` and `{b}` side by side when `mixed` is dropped from
  `ReplacedWholeUnlessRaced`. The property says that nothing else mixes lists, and
  that the next update that does not race puts them right.

More things a reader should know. `AnsweringPeerKept` holds only while the pong
timeout is below the ping interval: above it, the interval overwrites the handle of
an armed timer, which no pong can cancel any more (`orphanTimeouts` in `AgentWs`).
Two partial updates of a metric, each in order with the row it has read, can leave
`minValue` above `maxValue` (`metrics.service.ts:125`); `RangeKeptUnlessRaced` says
that nothing else can, and a later update of such a row that touches neither bound
is refused for its range. Two creations of one name race to an answer of 500 in
`createMetric` as in `createUser`. When one model has a primary result, models that
have only secondary ones vanish from the scores. `GET /metrics/models` never reaches
its handler, as `@Get(':id')` stands before it (`metrics.controller.ts:41`) and its
pipe refuses "models".

## Proofs

All theorems are about the `Spec` without fairness, for every value of the
constants that meets the `ASSUME`s: `MaxAttempts` is positive
(`parseIntWithFallback`), bounds are naturals, `None` and `NoSession` are none of
the things they stand beside.

| theorem | by |
|---|---|
| `AgentWs_proofs!TypeCorrect` | inductive as it stands; `MaxAttempts` bounds the counter |
| `SingleConnectionAlways`, `TimersFitConnectionAlways`, `NeverStrandedAlways` | corollaries of `Connected`, their strengthening: it adds that sockets outside the session are closing or closed, and what holds of a socket being opened |
| `AnsweringPeerKeptAlways` | from `PongAwaited`: without overlapping pings no timer is orphaned, and an armed pong timer has an unanswered ping |
| `SentInOrderAlways`, `ChannelImplemented` | refinement under `isOpen <- session # NoSession`: each action is one action of `AgentChannel` or a stutter; `SentInOrder` is what makes `onSocketOpen` a `Flush` and `send` on an open connection a `WriteThrough` |
| `Conversations_proofs!TypeCorrect` | `TypeInv`: `TypeOK` and that only a start of a new conversation lacks its `conv`, without which later steps would index the maps by `None` |
| `BindingsAgreeAlways` | inductive with `TypeInv`; the case that matters is `bindSocket` with a displaced client |
| `NothingUnheardAlways` | from `HeardInv`: if queries do not fail, every message the user has stored is heard by the agent of its session, or will be (`ToBeHeard`): a handler has it to send or is reading a history that has it (`Tells`); the case that matters is a session opened anew, which begins with a read of the history (`HeardKept`) |
| `CompletedHasLastWordAlways` | from `LastWordOrder`: a handler of the agent that awaits `updateStatus` has a final message, and it is stored |
| `OnlyExistingAlways` | from `ExistingInv`: a handler past its check works on a conversation that is stored |
| `NothingUnsavedAlways` | from `SavedInv`: what a handler past its insert holds is stored, and a message is shown or sent only from there |
| `ChatLogImplemented` | refinement under `attended <- Attended`, `told <- Told`: each action is one action of `ChatLog` or a stutter. Between an answer and the step that acts on it others move, so each guard of `ChatLog` needs an invariant: `ExistingInv` for `Save` and `Attend`, `LastWordOrder` for `Complete`, `SavedInv` for `Show` and `Tell` |
| `UserMessagesSavedOnceAlways`, `SavedOnceWithOneListener` | from `Once(From)`, for the senders `{"user"}` and `{"user", "agent"}`: a number is given once (`NumbersGrow`), to one handler that is yet to save it (`ToBeSaved`) or to one place in the tables, never to both. A handler passes it on only when its insert is executed; only the agent starts several handlers in one step, one per listener |
| `InitComesFirstOneCallAtATime` | from `InitFirst`: a session that has been sent nothing has a handler that is reading its history; a handler at its `createMessage` is a second one |
| `SessionHasOwnerWhileStaying` | from `Owned`: the bindings are among the pairs, so that a bind displaces nobody (`BindsItsOwn`) and only the owner's leaving unbinds it, which closes the session; a handler of `send_message` has its client bound; a session without a bound client has a `start_chat` that is reading its history and will bind |
| `SessionEndsForAReasonAlways` | from `BindingsAgree` and from `LastWordOrder`'s part on a finished update: the conversation is completed before its session is closed |
| `AgentMock_proofs!TypeCorrect`, `AcceptedMeansYesUnlessRacedAlways`, `CompletedMeansEndedUnlessRacedAlways`, `RestoreMatchesLiveUnlessRacedAlways` | from `ScriptInv`: in a session that has had one call at a time (`Clean`), what the queue of callbacks may hold at each step of the script and what the one call has read or stored of the history (`CleanInv`); at its end, that the answers lead there (`EndInv`). A new session is clean when nothing of the calls before it is left, whatever they were (`Alone`) |
| `Catalog_proofs!TypeCorrect` | `TypeInv`: `TypeOK` and `ArgsInv`, that a request past its look has a test that exists and, past `findTest`, the test's suite |
| `ResultInItsSuiteAlways`, `NoEmptySuiteAlways`, `LinksResolveAlways` | inductive together with `TypeInv` and `ContainedInv`: what a transaction has found, deleted and inserted is of its own test, and nothing outside a transaction |
| `OptionsFindAlways` | of the two queries as they are: both ask for the skills of tests that are not marked deleted, so it holds for every content of the tables that has its type |
| `SubsetOfItsTestWhileIdsAreKept` | from `Belongs`: a request past `findSubset`, and every result, has the test that owns the sub-dataset; the row that `LinksResolve` finds by its id is then the test's |
| `ScoresOfEveryList`, `ScoresMeetDefinitionAlways` | by a counterexample with the least number of results read (`LeastNatural`): if the map after n results holds the first of each model that counts, so does the map after n + 1 (`TurnKeepsFirst`); the first of a model is its newest, as the list is sorted |
| `ReplacedWholeUnlessRacedAlways` | for any bodies. Two updates of the row are not in their transactions on one test at once (`Locked`). What a transaction has deleted is all there is of the relations it is through with, but for those it has been overtaken in (`Covers`), so that a list outside `mixed` becomes what the commit asks for |
| `Accounts_proofs!TypeCorrect` | `TypeInv`: `TypeOK` and that a request past its look has the id, update or identity it goes on with |
| `OneAccountPerLoginAlways` | inductive: every write is under `Unique`, whatever the checks have read |
| `Accounts_proofs!OnlyAskedChangesAlways` | of every action, with `TypeInv` |
| `TokensEarnedAlways` | from `EarnedInv`: every present row is in `stored`, and an identity waiting to be signed is already earned |
| `CreationHidesNoneAlways` | from `OneAccountPerLogin` and ids of their own: the lists sorted by username or by creation have no ties; an insert is the only step that creates (`CreatedInv`: its id is new); then `AddedHideNone` |
| `Listing_proofs!NothingHiddenAtRest` | of the operators of `Listing`: the i-th row is on a page no later than the i-th |
| `Listing_proofs!AddedHideNone`, `OneChangeHidesOne` | without ties a row's place is the number of rows up to it (`Rank`). A hidden row was past the pages read and is now within them, so it has moved up; an added row moves none up, and one changed row moves each other up by one place at most, so that only the row next to the pages read can be hidden |
| `Metrics_proofs!TypeCorrect` | `TypeInv`, likewise |
| `ServingHasLookupsAlways` | inductive when strengthened: the first `starting` of the default lookups are there |
| `AnswersTrueAlways`, `Metrics_proofs!OnlyAskedChangesAlways` | of every action, with `TypeInv` |
| `UniqueNamesAlways` | inductive with `TypeInv`: every insert and every rename is under the unique index, whatever the checks before it have read |
| `OneWriteHidesOneAlways` | from `UniqueNames`, which leaves the list no ties, and `OneRowChanges` of every action; then `OneChangeHidesOne` |
| `RangeKeptUnlessRacedAlways` | from an invariant that a request about to write has a row and an update that are in order together, and that one about to create has a row in order |

Only model-checked: the liveness properties (`ConnectsOrGivesUp`,
`SilentPeerNoticed`, `LastWordCloses`), as liveness under fairness is out of the
prover's reach. Every other property of a passing run is a theorem, and so is every
property a run refutes but `ClosingIsSafe`, under the hypothesis above. Induction over
lists is done without the library's induction theorems, which take a predicate as a
parameter: a counterexample of least length exists because the naturals are well
founded (`LeastNatural`, from `WFMin`), and it has none before it.
`OnlyExisting`, `UniqueNames` and `UserMessagesSavedOnce` have no run of their own:
the first two are steps of these proofs, and what they keep apart shows in
`ImplementsChatLog` and `OneWriteHidesOne`.

## Not modelled

* `toDto` of the catalog's mapper (renaming), search and the filters on a test's own
  columns, `createModel` (an upsert nothing depends on), the lists without keys.
* Torn reads: Prisma reads a row and what it includes in several queries.
* The conversations' REST controller and `findAll` (read only), `updateIntent`
  (no caller), DTO validation, Swagger, logging.
* Backoff delays and jitter, the handshake's duration: time is not counted.
* What happens to a payload handed to a socket whose link is already dead: the
  protocol has no acknowledgement, so `written` means "handed to the socket".
* Configuration and start-up, which keep no state; the lookups and the seeder of a
  start are in `Metrics` and `Accounts`.
* `ws`, socket.io, Prisma and PostgreSQL are external: sockets by their states and
  events, clients by their ids, a repository call as one atomic statement.

## Plan

1. *(done)* `AgentChannel`, `AgentWs`, `AgentMock`, `ChatLog`, `Conversations`, `Catalog`,
   `Metrics`, `Accounts`, `CatalogReads`, their runs and the theorems above.
2. *(open)* A composition of `Conversations` with `AgentChannel` in the place of its
   abstract agent. The two meet in two points, which are covered apart: payloads reach
   the agent once and in order (`ChannelImplemented`), and a session that the channel
   gives up is `AgentGivesUp` of the abstract agent. What would be new is the dialogue
   at the agent's end while the channel reconnects, at the price of a state space
   beyond the five minutes a run is kept to.

The runs of `MCConversations` that refute one comment each are the ones to merge or
drop to make room for others.
