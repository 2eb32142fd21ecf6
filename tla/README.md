# The tutu MCP proxy in TLA+

A model, checked with TLC and partly proved with TLAPS, of the proxy in
`src/tutu_mcp/` that stands between an agent and the MCP server of a travel
service. The proxy shortens upstream's tool catalog, refuses to search on values
nobody named (the premise gate), and later checks an answer against the results
it delivered. Everything runs on one asyncio event loop: what lies between two
`await`s is one atomic step, and every `await` is a place where another request,
the network or a cancellation steps in. All modules use that granularity.

## Inventory

| component | state | operations | hard part |
|---|---|---|---|
| live upstream client (`upstream/client.py`, `call_with_timeout_retry` of `backend.py`) | `_client`, `_reconnect_lock` | `connect`, `aclose`, `_call`, `_reconnect`, the timeout retry, `list_tools` pages | many callers, one connection; failure, timeout and cancellation at every await; two stacked retries |
| catalog cache (`load_catalog` of `proxy/server.py`) | `catalog`, its timestamp, `trimmed_originals`, `catalog_lock` | `tools/list`, `tools/call` | double-checked lock, expiry, failed refreshes, overlapping fetches |
| session table (`session_for`) | `sessions`, insertion ordered | look-up, creation, eviction | eviction under a running call, callers without an identity |
| premise session (`SessionPremises` of `premises.py`, `proxy/dispatch.py`) | `seen_values`, `gated`, `assumptions`, `conflicts`, `user_request`, `results` | `evaluate`, `record_result`, `preamble`, `assess_request` | parallel calls of one agent over shared evidence, one-shot gates, a dry run that must predict them |
| groundedness check (`groundedness.py`) | none of its own; reads the session's `results` | `check_groundedness` | which evidence is still held; precedence of verdicts |
| calendar check (`check_calendar_consistency` of `premises.py`) | the dates already questioned, within one scan | `check_calendar_consistency`, `_resolve_year` | dates without a year, leap days, two overlapping patterns |
| catalog compaction (`proxy/compact_tools.py`, `proxy/surface.py`), empty results (`proxy/empty_results.py`) | `trimmed_originals` | `compactable`, `apply_compact_overrides`, `apply_result_appendix` | pages walked while upstream changes; nothing lost between entry and appendix |
| record and replay (`replay/`) | files under `fixtures/`, cached schema defaults | record, look up, bootstrap | concurrent misses, a crash in a write, an outage that looks like an answer |
| startup (`main.py`, `backends.py`, `config.py`) | the listening socket | claim the address, connect, serve | the address can be taken between the probe and the bind |
| eval runner and agents (`evals/run.py`, `runner.py`, `agent.py`, `variants.py`) | the semaphore, one transcript and one premise session per scenario, results | options, `run_eval`, `run_scenario`, the agent loops, the report | concurrent scenarios over one backend, bounded turns, a scenario that fails |
| eval transcript and checks (`evals/transcript.py`, `checks.py`, `plans.py`) | none | what counts as evidence, twelve checks, the self-check | the proxy's own words stand in the transcript it is judged by |
| eval reporting (`evals/report.py`, `tokens.py`, `measure.py`, `demo.py`), command line, viewer | none | formatting | none of it is state |

How they interact: a `tools/list` or `tools/call` first loads the catalog
(through the cache, and under its lock through the backend); a `tools/call` then
fetches its conversation's premise session and goes through `dispatch`: the gate,
the backend (live client or recorded fixtures, inside the timeout retry), the
appendix, the evidence, the preamble. The session is plain shared state: nothing
but the event loop orders the calls of one conversation.

What makes each correct, in one line: the client leaks no connection, closes no
healthy one and bounds its requests; the cache never goes backwards, never
fetches twice and never fails while it holds something; the gate blocks at most
a bounded number of times, clears only what has a source, discloses what it
releases, and does what its preflight said; the catalog an agent sees is complete,
and every sentence trimmed off it can still be had; the harness keeps its scenarios
apart, always ends, and confirms a claim only on data that upstream returned.

## Modules

**`FifoLock`** is `anyio.Lock` as the code uses it: an owner and a FIFO queue,
the lock handed to the oldest waiter in the step that releases it, a cancelled
task leaving the queue or releasing the lock. It is external code, modelled from
its use, and instantiated by the next two.

**`UpstreamClient`** models `upstream/client.py` and the timeout retry of
`backend.py`. `client` is `self._client`, `owner`/`waiters` the reconnect lock,
`conn` the fate of each connection object, `pc`, `on`, `stale`, `tries` the position
and the locals of each caller, `reqs` what its logical call has cost upstream. A
reference to a connection that is closed for good is `Gone`: the code only compares
it with the published one, which it is not, so the ids can be used again. One
action per stretch between awaits: the first request (`Call`), its four ends
(`Answer`, `RequestTimesOut`, `FirstFails`, `SecondFails`), the lock
(`FindReplaced`, `BeginClose`), the close and handshake (`BeginConnect`,
`HandshakeDone`, `HandshakeFails`, `HandshakeTimesOut`), and `Cancel` at any of
them. `StartConnect`, `StartFails` and `Shutdown` are `serve`/`main`. `Crash`,
`Recover` and `Blip` are upstream and the network. That a failed handshake leaves
`client = NoConn`, and that a new call then finds nothing to reconnect, is the
code's behaviour and is in the model.

**`CatalogCache`** models `load_catalog` and the two handlers over it; a version
number stands for the content of upstream's catalog and for the prose trimmed off
it, which the code assigns together, and `fresh` for `not catalog_expired()`. A timed-out fetch is
repeated once, a failed one is raised or absorbed depending on whether a catalog
is held. **`AtomicCatalog`** is what the cache promises with tasks, lock and
fetches removed: a catalog is replaced only after it expired and only by a
version upstream has served since; `CatalogCache` is checked and proved to
implement it (both have the same variables, the history variable `floor`
included).

**`PremiseSession`** models one conversation: `SessionPremises` and the calls
that go through `dispatch`. A call is a record of tool, arguments, `_sources` and
`_assume`; an argument is a set of values and whether it was given at all, since
that is all `evaluate` looks at. `Send`, then `Clear`, `Release` or `Gate`
(`evaluate`, one step), then `Respond`, `RespondError` or `BackendFails`
(`record_result` and `preamble`, one step), or `Cancel` in between; `Assess` is
`assess_request`. The gate's answer is given in the step that evaluates the call,
since no `await` separates the two. The policy table, what the user's words contain and what upstream may return are
constants.

**`SessionTable`** models what lies around one conversation: `_session_key` and
`session_for` of `server.py`, the evidence window of `premises.py`, and the
`check_groundedness` tool that reads it. `table` and `bound` are the `sessions`
dictionary (keys in insertion order, and the object of each key); a session is an
object that the table and the calls under way refer to, so that an evicted one
lives on until its last call ends, and a caller without a session id gets one
nobody else ever sees. `results` is the evidence, an entry standing for a payload
by its size and the client whose call brought it; `log` is everything that was ever
recorded and is history. Of the premise state only the one-shot gate is kept
(`gated`), to say whose it is. `Gate`, `Call`, `Check` look a session up;
`Respond` and `EndUnrecorded` end a call in the session it began with.
**`PrivateSessions`** is what a client may rely on, with no table, no keys and no shared
objects: its conversations are its own; one that begins may end one other client's, which
then is lost as a whole; `SessionTable` is checked and proved to implement it. The mapping
shows each client what it can still reach, through the table or through its own calls
under way (`Reach`).

**`RecordReplay`** models `replay/`: `disk` is what every fixture file holds
(absent, torn, or arguments with an answer), `catalog` the recorded `tools/list`.
One program writes at a time (`run`): an evaluation with `RecordingBackend`, whose
concurrent scenarios `Ask`, wait for upstream and, if it answers (`FetchAnswers`), save;
or the recipe driver of `bootstrap.py`, which goes through its entries in order and
skips one whose need gave no payload. A save is two steps, `BeginSave` and `EndSave`,
because `write_text` is not atomic on disk; it does block the event loop, so the other
scenarios stand still in between. `Crash` ends the program anywhere. The look-up
(`Normalize`, `Scenarios`, `Matches`, `Hit`, `Found`, `Miss`) changes nothing: it is no
action, and the properties speak of what any reader would find at any moment, with the
catalog's defaults and without. The module takes one thing from outside: that upstream
reads an empty argument as the default its schema declares (`Meaning`). `recorded` and
`said` are history.

**`CatalogSurface`** models how Tutu's catalog becomes the proxy's: the page loop of
`UpstreamClient.list_tools` (`NextPage`, `LastPageJoined`; `cursor`, `seen_cursors` and
`tools` are its locals), the timeout retry that walks the pages a second time
(`PageTimesOut`), the failure that drops a walk (`PageFails`), the compaction of the
catalog joined and the two synthetic tools behind it (`proxy_catalog`), the prose set
aside (`apply_compact_overrides`, `trimmed_originals`) and given back with the result of
an instructions tool (`apply_result_appendix`). `Redeploy` is upstream: between two pages
it moves, drops or rewrites a tool. A text is a record that says whose prose it is; the
digest that ties an override to its source is "the description is the one summarized".

**`Calendar`** models `check_calendar_consistency` as the scan it is: `NextMatch` takes
the leftmost match of the pattern in hand (`finditer`, whose matches do not overlap),
`NextPattern` goes on to the second one, and `seen` is shared by both. A request is a
sequence of weekdays, dates and "far", a stretch a pattern may not skip.
`_resolve_year` is over the real Gregorian calendar, with nine years as in the code.

**`Groundedness`** holds the operators of `groundedness.py`: what of a payload goes into
the index (keys with an underscore and error payloads do not), when a price, url, time
or code stands in it (prices within a hundredth or equal when rounded as Python rounds),
the precedence confirmed, assumed, said by the user, unavailable, and the tool. A payload is an object or a list, an
answer says how often it makes each claim.
**`EvalChecks`** adds `transcript.py` and `checks.py`: what of a transcript is evidence,
and one operator per class of check.

**`EvalRun`** composes these with a run of the harness. `opts` are the options,
refused as `run_evals` refuses them (`Refuse`); `Connect`, `MeasureSurface`,
`NextVariant`, `Report` and `ReportFails` are the run's outer loop; `Acquire`, then
`RespondCalls`, `RespondAnswer`, `RespondRefusal`, `RequestFails` (the model's next
response) and `Execute` (one call of it) are `run_scenario`, one instance per scenario,
all of a variant concurrent under the semaphore `permits`. `dispatch` is what a call does:
the gate with its budget, a preflight, the draft check, upstream's answer or error, and the
preamble, which goes into an object and behind the text of a list; its policy is one
blocking and one narrowing argument per call (`PremiseSession` has the whole table), and
what is assumed is kept per argument: declaring replaces what stands, booking does not
(`Standing`). A request in `Contradictory` names a date with another weekday, which is a
preamble of its own once the request was assessed (`Assuming`). `scope[s]` is the premise
session a scenario's calls go through, and `delivered[s]`, history, the data upstream
returned to it. `Return` judges the transcript and gives the permit back. An agent is
"openai" with either API or "scripted", whose calls and answer are the constant `Plan`. A
call is executed in one step: within a scenario calls come one after the other, and
scenarios share no session. Token counts and latencies are left out.

The `MC...` modules give the constants of each run; the `...Proofs` modules hold
the theorems.

## Runs

| run | bounds | shows |
|---|---|---|
| `upstream` | 3 callers, 2 connections | type, no leaked connection, the retry goes elsewhere, a healthy connection is closed only by one who failed on it, every logical call ends |
| `premise` | two scenes: 2 concurrent calls of 4 shapes and 2 requests; 1 call at a time of 7 shapes, one for every branch of `evaluate`, and 2 requests; 2 gates, 1 remembered value | budget of gates, sources, disclosure, preflights, gates shown, assumptions kept, no agent is answered by the gate forever |
| `catalog` | 3 tasks, 3 versions | one fetch, a held catalog serves, the refinement of `AtomicCatalog`, and that requests end |
| `session_table` | 4 clients (2 without a session id), 2 tasks, 4 session objects, a table of 1, 2 results and 3 bytes of evidence, 3 results per session | isolation of conversations, which evidence is held, and the refinement of `PrivateSessions` |
| `record_replay` | 2 scenarios, 2 tools, 5 requests over one parameter with 5 values, a recipe of 2 entries, one needing the other | what is replayed is genuine, stays recorded, and is no outage; which crash can cost a recording |
| `catalog_surface` | 4 tools of 2 domains, one of them with an override, 1 field of 4 kinds of prose, 1 to 3 pages, 1 redeploy | the catalog of a walk that nothing changed under is complete and has every tool once; no prose is lost; every walk ends, also behind a cursor that leads back |
| `calendar` | requests of 2 to 4 tokens out of 6, 6 days | a date resolves to its next occurrence; exactly the contradicting weekdays are questioned, once |
| `eval_run` | 2 scenarios, 2 calls each, 1 gate, 13 settings of the run: 3 agents, 1 and 2 permits and turns, each variant, every refusal | permits and turns, isolation of scenarios, what of the evidence reaches the judge, what is confirmed stands in data, an honest report, every run ends |
| `upstream_wedge`, `upstream_budget`, `eval_echo`, `eval_list` | 1 caller and 2 connections; the instance of `eval_run` | violated, see Findings |

Why the bounds are enough. Three callers are the least that put two in the queue
of the reconnect lock while one reconnects, so that one who takes the lock second
and one who is cancelled inside the queue both occur; two connections are all that is
ever not `Gone`, the published one and the one being opened, so `Fresh` never starves a
reconnect. Two calls are the least that race on one session; two gates are reached by
them with calls to spare, and one remembered value makes the cap of seen values drop
evidence. Three tasks put two in the queue of the catalog lock, and two changes of the
catalog (`MaxVersion`) let an answer on its way be older than upstream, or than what is
held. A table of one conversation evicts with every newcomer, so a session is dropped under its call,
and its key comes back with another object, within a few steps; four objects are
the least that never run out for two tasks and the table. Sizes 1, 3 and 5 against
a budget of 3 give results that fit together, alone and not at all. Two scenarios are
the least that miss together; the values of the parameter are one of each kind that
`normalize_arguments` and `_is_empty` tell apart (omitted, empty, the default, `False`,
another), and the two entries of the recipe are one that is needed and one that needs.
Three pages are the least with a cursor that leads back to neither the first page nor
itself, and with a page after a redeploy that is not the next one; one redeploy drops,
moves or rewrites any tool at any point of a walk. The days of `calendar` lie before,
on and after a date, on the last leap day before 2100 (not a leap year) and at the turn
of a year; four tokens are two weekdays around a date with one to spare, so both
patterns, an overlap of them and two dates that compete for a weekday all occur. In
`eval_run` two scenarios, one of them with a request that contradicts the calendar,
contend for one permit and run side by side on two; a price
upstream may return, one it never does and a code it may return or not are what tells
evidence from echo, and one of upstream's answers is a list; two calls in two turns reach the cap, a gate and its repeat, and an
assumption whose value a later check quotes.
Every counter is bounded by the code itself (tries, gates, seen values, entries of
the table); the bounds of the models are `MaxVersion`, how often upstream's
catalog changes, `MaxDelivered`, how many results one session is given, `MaxRedeploys`,
how often upstream's pages change, and `MaxCalls`, how many calls a model places in one
scenario (the code bounds its turns only).

`Permutations` symmetry is used in `session_table` and `record_replay` only, which check
no liveness; in `session_table` the session id of a client is the client's own model
value, so that the ids are permuted with the clients. The same run uses a VIEW that drops
the last report and what is left in objects nobody refers to: no action reads either
(`Hand` starts a new session empty), and the refinement maps the latter to nothing.
`CHECK_DEADLOCK FALSE`: the process may stop for good
(`stage = "stopped"`), and in `PremiseSession` and `CatalogCache` a state with
nothing under way is a legitimate end, as is the exit of the process in `EvalRun`.
The other runs are checked for deadlock.

Fairness. `FairSpec` asks only that a caller, task or call which can proceed by
itself eventually does: each request and each handshake ends because of
`read_timeout_seconds`, and the event loop runs every ready task. Nothing is
assumed of upstream (it may fail or time out forever) and nothing of clients,
except in `BusySpec`, where callers keep calling: `upstream_wedge` is about what
their calls can then achieve. In `CatalogSurface` it is that a request to upstream
ends, for the same reason; nobody has to begin a walk. In `EvalRun` it is that the
harness takes its own steps and that a scenario which may take a permit, or whose
request to the model or to the backend is out, goes on in the end: both clients have
timeouts, `asyncio.Semaphore` serves waiters in order, and every outcome is allowed.

## Theorems

Each proof module has the same plan: an inductive invariant `IInv` (checked with
TLC before the proof), `Init => IInv`, `IInv /\ [Next]_vars => IInv'` with one
step per action, and one theorem per property (`EvalRunProofs` has three such
invariants, `SessionsInv` and, on top of it, `Bookkeeping` and `ReportInv`).

- `UpstreamClientProofs`: `TypeOK` and `NoConnectionLeaked` are not inductive.
  `IInv` adds that whoever is closing or connecting owns the lock, that the owner
  and the waiters are distinct callers at the program counters that go with them,
  that the handshake in progress is the only reference to its connection, that
  the closing connection is still the published one, and that `reqs` is
  at most `2 * tries`, and less where more may follow; from the last a budget
  of four requests follows (`AtMostFourRequests`), one above the three that the
  tests name and `upstream_budget` refutes. `RetriesElsewhere` is a theorem about the
  step that sends the retry: `client` is read when the lock is released or the handshake
  done, and is neither the connection the caller failed on nor a closed one.
- `PremiseSessionProofs`: disclosure needs that whatever a pending call booked is
  still assumed; the preflight needs that `seen` only grows and that every
  planned call was judged with the request that stands; that "drop the invented
  filters" is enough needs a least planned call with a gap (a well-founded
  minimum).
- `CatalogCacheProofs`: the refinement, the monotonicity and the single fetch all
  rest on: at most one task is past the lock and the catalog is not fresh while
  it is, and the answer on its way is a version between `floor` and `upstream`.
  `NeverRollsBack` is a theorem only: the run checks the refinement, which leaves no room
  for an older catalog.

- `SessionTableProofs`: isolation says whose marks a session bears and is not
  inductive. `IInv` adds who may write to it: distinct keys of the table have
  distinct objects, the object of a call under way is bound, if at all, to the key
  of that call's client, and calls that share an object share a client. That an
  object handed out as new is referred to by nobody does the rest. The stdio case
  (`Stdio`, one process with one client) is in the theorem and not in the run.
  `LongestEvidence` is about the window of evidence, whose size is a sum over a sequence. What is needed of that sum (what
  a new result adds, that a suffix weighs no more) is proved by `SetInduction`, induction
  as a fact about a set of numbers. The invariant is that what a session holds is the
  longest run of its newest results that fits; a result dropped earlier does not fit with
  one more behind it, so the window never has to grow back.
  `ImplementsPrivate` goes step by step: a look-up hands a session to its own client
  (`LookupRefers`: nobody else refers to it before or after, and nobody comes to refer to
  another one), a new entry costs at most the oldest key its place (`OneLeaves`) and with it
  at most one client (`KeyIdentity`), and a late result lands where only its client looks.

- `RecordReplayProofs`: `IInv` adds that the draft of a write is the file of the call
  under way, that every whole file and every draft carries arguments that fit its name
  and an answer upstream gave to that meaning, that an error is in the files of the
  recipe only, and that the file of a recorded call is never absent again. That is not
  yet that the call can be replayed: a crash in a write tears a file, and one torn file
  fails every look-up of its tool. `StaysRecorded` says that a recorded call is never a
  miss, found or failing on such a file; `SettledForGood` says when its own file can be
  torn at all: by its own first write, or by the second one of a scenario that had asked
  for it before the first was there (`Contested`); the recipe writes files of other
  names. Once nobody else is after it, no later run and no crash takes it away.

- `CalendarProofs`: `ResolvesToNext` is arithmetic, not induction: eight years in a row
  hold a leap year, whatever centuries they cross, so nine years from today hold an
  occurrence of any date that exists. `AsksOnce` is inductive once it says that what is
  questioned has been seen and that the two tokens of a match are near each other.
  `TyposAreFound` needs the other direction: each pattern reaches every date that is near
  no other and has a weekday on its side (`FirstPatternReaches`, `SecondPatternReaches`),
  because a match that begins earlier ends before the weekday and the date or is the
  date's own, and what is reached is judged by the one weekday that claims it and stays so.

- `CatalogSurfaceProofs`: what is sent and what is set aside are functions of the catalog
  held (`Held`), so `NothingLost` is a fact about catalogs, whatever pages were joined to
  make one. `CatalogComplete` needs `WalkInv`: in a walk of an upstream that has not
  changed (`stable`), the pages joined are those asked for but the last, each of them led
  to another one asked for, all are linked to the first, and no name stands twice. A walk
  that ends finds nothing new, so what it asked for is closed under `next`.

- `EvalRunProofs`: `DispatchLeaves` says for every kind of call what it leaves in the
  session and in the transcript. From it follows the invariant `SessionsInv`: each
  session is its own scenario's, everything in it came with a call of the transcript,
  its data stand in the transcript unless they are a list and something is assumed, and
  what the transcript shows as evidence is
  upstream's or has no price in it. Isolation, `JudgeLosesOnlyLists` and
  `ConfirmedByData` rest on it, the last two through the fact that grounding grows with
  the payloads (`IndexCovered`, `PricesCovered`). `TypeOK` adds that an idle scenario
  has used no turns and counts the permits with the active scenarios. `ReportHonest` adds
  that the variants passed are complete, that a judged scenario of this one has its result,
  and that a scripted agent asks no model and places no malformed call, so that each of its
  results is the judgement of the planned answer; of such a judgement `InventedFails` says
  that `all_claims_grounded` fails if and only if a claim was found invented, provided that
  the answer claims anything the user did not say (with no such claim the check goes by
  `require_any`, and two planned answers are held to other checks only).

They hold for any number of clients, sessions, scenarios, fixtures, requests, callers, connections, tasks, versions, tools, fields,
values, days and turns, under the assumptions on the constants named in the modules (absent
values are not values, the policy table and the calls are well formed, the gate
budget is positive, tools have finitely many names, a self-check has a plan for each pair
it expects a verdict of). Every safety invariant and every action property of the passing
runs is proved, the two refinements too. Model-checked only is liveness (`CallsEnd`,
`GateYields`, `RequestsEnd`, `WalkEnds`, `RunEnds`), which is out of the prover's reach.
Induction with a predicate as its parameter is out of reach too: where a proof needs it, the
predicate is a set, and that every number is in it is shown from a least one that is not.

## Findings

- `upstream_wedge`: a reconnect whose handshake fails leaves `_client` at `None`
  (`client.py:128`), and `_require_client` then fails every later call before it
  could reconnect. The proxy stays down until it is restarted, although upstream
  is back: what the docstring of `_call` says reconnecting is there to prevent.
- `upstream_budget`: the two stacked retries cost up to four requests: the first fails,
  its repetition on a new connection times out, the second attempt fails, reconnects and
  repeats. `tests/test_upstream_client.py:323` is named for three, and tests the order
  timeout, failure, retry. Four is the bound the code keeps to, and it is proved.
- `eval_echo`: the gate and `assess_request` answer with `is_error=False` and quote the
  value they ask about as a string, and `result_payloads` (`transcript.py:97`) counts that
  as evidence. A train or flight code that upstream never returned, asked about by the
  gate, is then confirmed by the gate's own question. Prices are safe from it
  (`ConfirmedByData`).
- `eval_list`: a result that is a JSON list gets the preamble behind its text
  (`dispatch.py:90`) and is no JSON any more. The session keeps it, so the draft check
  grounds claims in it that the judge, who parses the transcript, calls invented: what
  the docstring of `attach_preamble` says its present form is there to prevent. Nothing
  else is lost (`JudgeLosesOnlyLists`).

Seen in the model and given no run of its own:

- `setdefault` keeps the first value booked for a field (`premises.py:728`), so a later
  released call may go out under a preamble that names another value:
  `ReleasedFieldsDisclosed` and `AssumptionsStand` speak of the field.
- A call is evaluated an await after it was sent, so a sibling's result can clear a value
  the agent had made up, which the comment at `premises.py:530-534` rules out.
- A fixture that was being written when an evaluation was killed stays torn and fails
  every look-up of its tool; the message asks to record again (`store.py:106`), which
  writes no file of that name. Deleting it helps.
- A result larger than the byte budget evicts everything, itself included
  (`premises.py:564`), and `check_groundedness` then says that the proxy has seen no
  result in this session.
- A catalog refreshed between `tools/list` and the call can take away the appendix that
  the trimmed entry points to (`server.py:153`).
- A redeploy in the middle of a walk can join one tool twice or leave it out: a catalog
  of two generations is kept until it expires. A server that hands out a new cursor with
  every page would be followed forever; `seen_cursors` ends only cycles.
- A date that stands with two weekdays is checked against the first match only, and in
  "on 9 October or on 11 October, Sunday" the weekday is held against the 9th.
- The Responses loop has no test for a refusal: it ends as an answer with no text and no
  failure, where `transcript.py:43` names a refusal among the failures.
- Arguments of a model's call that are cut off are read as none at all (`agent.py:190`),
  and those that are JSON but no object raise inside `dispatch`.
- `evals/run.py:226-231` reports a refused call as still open though another scenario may
  have recorded it since.

- A call that arrives while another one is reconnecting finds no client and fails with a
  `RuntimeError` that no backend translates (in `FirstRequest` it just ends);
  `backend_error` still reports it as `upstream_unavailable`.
- `client_factory` raising in one scenario ends the whole run with its exception
  (`agent.py:254`); `RunEnds` counts that as an end, the other scenarios' results are lost.

## Not modelled, and the plan

Left out for good: settings parsing, command line, reports, token counts and estimates,
viewer and pages (no state, or pure formatting); the wording of every message; and
`empty_results.py`, which puts a note under one key that nothing else reads.

Left out of the modules above: of the startup, `claim_address` and what happens when the
address is taken before the bind; of `Calendar`, the inflected forms of weekdays and
months; of `Groundedness`, the regular expressions that find claims and disclosures in
an answer; of `RecordReplay`, the server-info file, two processes recording at once, a schema default
that a re-recorded catalog changes, and that Python holds `True` and `1` for equal; of
`CatalogCache` and `CatalogSurface` together, the appendix of a call placed by a catalog
that was refreshed after it was listed: the proxy keeps no record of what a client listed;
of `CatalogSurface`, cursors without end; of `PremiseSession`, the text of the gate's
questions; of `EvalRun`, a variant named twice, the appendix of instructions tools (whose
results are prose and no payload), exceptions of the evaluation itself, the latencies and
the token counts.

Next, in this order:

1. `Startup`: the probe, the bind, the handshake and the signals, composed with
   `UpstreamClient`.
2. `EvalRun` with the fixture files of `RecordReplay` behind its backend, so that what
   `--record-missing` adds during a run is part of it.
