# Netherchat: a TLA+ verification project

Netherchat is an end-to-end-encrypted incident chat. A *blind relay* (Go, `server/`)
keeps rooms of WebSocket connections and fans opaque frames out; everything that has a
meaning (the record, seals, quorums, receipts, rosters) is computed by the clients
(`tui/client`) from signed frames. Around them are a terminal interface, a relay-less LAN
mode, programs that turn other systems' alerts into war rooms, and daemons that report a
room to other systems. A room is meant to destroy itself.

The project models the concurrent core of each of these, checks it with TLC on small
instances, and proves with TLAPS, for every instance, nearly all the safety properties of
the relay, of the client protocols, of the LAN mode and the daemons, and of the record and
attestation libraries.

## 1. Inventory

### Relay (`server/`)

| Component | State | Operations | Hard behaviour | What makes it correct |
|---|---|---|---|---|
| Connection handler `ws/server.go` | one goroutine per connection: policy read at Hello, `iAmOwner` | Hello, token gate, `IsEmpty` probe, Join, relay loop, Leave, abort transfers, Stop / OwnerLeft | each step is a critical section of another lock; everything is keyed by room *name* while the room behind the name may be another one by then | registered exactly while present; one owner per incarnation; nobody stranded |
| Registry `hub/hub.go` | `rooms`: members map and order slice, lastActivity | Join, Leave, ExpireRoom, Scuttle (+300 ms grace timer), Touch, idle-TTL janitor, `onClose` | teardown deletes the room, then closes its connections, which later leave by name | map and order agree; the oldest member (the key distributor) is stable |
| Invite tokens `invite/invite.go` | token -> room, expiry | Generate, Redeem, sweep | two presenters of one token | a token admits once |
| Dead-man's switch `scuttle/scuttle.go` | janitor and armed timer per room name | Start, Stop, OwnerLeft, Arm, idle loop, countdown | janitors and timers of two incarnations share a name | a watcher ends with what it watches |
| War rooms `ephemeral/ephemeral.go` | name -> deadline | Create, Get, sweep | unregistered under one lock, expired under another | closed at the deadline |
| Transfer slots `ws/transfers.go` | room -> id -> owner, start | tryStart, finish, abortBy, sweep | several ways to end, one of them by a disconnect | no slot leaks, the limit holds |
| Status Beacon `beacon/`, `api/beacon.go` | one blob per room name | PUT, GET, DELETE, expiry, purge on teardown | purge runs after the room is gone | no beacon outlives the teardown of its room |
| Alerts, routes, REST `alert/`, `route/`, `api/`, `config/` | token buckets, routing rules | signed alert, webhook, normalisation of the file | requests are repeated, delayed and mixed; buckets are made on first use | each caller is limited by its own requests |

### Client (`tui/client`, `tui/record`, `tui/attest`)

| Component | State | Operations | Hard behaviour | What makes it correct |
|---|---|---|---|---|
| Session `client.go` | members and order, room key and epoch, IC, acks, pending frames | Welcome, joined/left, key request and delivery, vanish, ack, handoff | Welcome after notices; a key delivery racing a vanish; two broadcasts in two orders | key holders agree; no way back to an earlier epoch |
| Close `client.go` | send queue, in-flight frame, three channels | enqueue, write loop, CloseWithin | a budget that ends while a frame is in the writer's hand | every frame left, or is named in the error |
| Artifact approval `artifact.go` | tracked proposal, approver list | propose, approve, reject, expire, count, write | every client elects the writer from the set *it* saw | approvals are real, distinct and a quorum; one writer |
| Two-person actions `action.go` | tracked request, approvers | request, approve, veto, expire, count, perform | the callback runs on whichever goroutine reached the quorum | nobody acts alone; performed once |
| Scuttle receipt `receipt.go` | co-signature round, queued burn | start, ack, finalize, self receipt | three goroutines; a server scuttle or /vanish in the window | burn after receipt, once, and surely |
| Signed roster `roster.go`, `cosign.go` | co-signature round over a snapshot | request, co-sign, ack, finalize | the view is compared in one critical section and signed after it; a ratchet in between | signers saw exactly what they signed |
| Sealed Record `record.go`, `tui/record/record.go` | hash chain, active round, retained seal, pending request | append, remote append, /seal, ack, finalize, amend, reset | unlock between read and act; stale timer; acks after the round | chain linked; no signature lost; a signature vouches only for what was held |
| Record library `tui/record/seale*.go` | entries, signatures, approvals, bindings of a file | Sealer calls in any order, Verify | calls overwrite each other; files are edited | what is written verifies, what verifies is backed |
| Identity attestations `tui/attest`, `cmd/netherchat-identity` | artifacts, pins, revocation statements | issue, renew, revoke, verify | statements in any order and subset; cached verdicts and a moving clock | verdicts monotone; a shown name was vouched for |
| File transfer `file.go` | send window, reassembly | offer, chunk, ack, abort | lost acks, several receivers | the window and the verdict rest on what was received; it ends |

### Around them

| Component | State | Operations | Hard behaviour | What makes it correct |
|---|---|---|---|---|
| Sneakernet `tui/sneakernet` | the coordinator's members, one out channel each | host, dial, authenticate, join, route, burn, close | a broadcast outside the lock; a burn while lines are routed; peers before the host's own client | one minter of the key; a departure is the last word; a burn evicts |
| Adapters `connector`, `cmd/netherchat-{paging,siem-adapter,alertmanager,cicd,*-adapter,*-bot}` | none between requests | authenticate, filter, call the relay, answer | a call fails before or after it took effect, in the middle of a batch | a sender told "all well" has had everything accepted |
| Outbound daemons `tui/bridge`, `slack`, `teams`, `itsm`, `siemout` | buffer, jobs, retry schedule | select loop, deliver, retry, flush, stop | ticker, loop and shutdown take one buffer; Done against queued events | every event in one place; the daemon ends |
| Terminal interface `tui/ui` | rooms, their cores, listeners, macros | commands, dials, events, leave, quit | messages addressed by room *name* in any order; Update echoing into a channel only it reads | each core has its listener, and is held or closed |

Clients interact only through frames relayed by the server: the relay keeps the order of
one sender's frames per receiver, not across senders, never echoes a frame to its sender,
and drops a frame when the receiver's buffer is full. The relay's components share state
through the room name. The scuttle manager calls back into the hub; the hub's `onClose`
calls into the beacon store; the war-room registry's `onExpire` calls the hub. Adapters call
the relay over HTTP; daemons and the interface consume a client core's event channel.

### Not modelled

- `tui/eventlog`: a mapping from client events to the fields of JSON lines; it has no state.
- `tui/duress`, `tui/engagement`: sequential handling of files and credentials, each
  decided in one call; nothing interleaves with it.
- `tui/report`, `tui/notify`, `tui/output`, `tui/statusline`, `tui/qr`, layout and themes of
  `tui/ui`: rendering of state that other modules own.
- Flag parsing and wiring in `cmd`, and the headless one-shot commands, which are one call
  of a client operation and a wait for its event.
- Cryptographic primitives are ideal: signatures are unforgeable, hashes collision-free, a
  frame opens only under its key. The ratchet and the condition of opening are in `Session`.
- JSON layouts (`protocol`), SQL (`store/sqlite.go`), mDNS, HTTP plumbing: pure I/O.
- `web`, `terraform-provider-netherchat`, `infra`: another build of the client protocol and
  deployment tooling.

## 2. Modules

| Module | Models | Notes |
|---|---|---|
| `RelayParams` | – | connections and room names |
| `Hub`, `Invites`, `ScuttleManager`, `Transfers`, `Beacons` | the files of those names | one component each |
| `Relay` | `ws/server.go`, `ephemeral.go` | composes the five; the specification of the relay |
| `Session` | `client.go` against `Server.serve` and `hub.Broadcast` | two goroutines per client, one per connection |
| `ClientClose`, `Outbox` | `CloseWithin` and the write loop; what Close promises | `ClientClose` is shown to implement `Outbox` |
| `ArtifactQuorum` | `artifact.go` | one proposal on every client |
| `ActionQuorum` | `action.go`, `receipt.go` | one gated `/scuttle now`, its receipt round and burn |
| `SealedRecord` | `record.go` (both), `clock.go` | chain and seal handshake |
| `RosterRound` | `roster.go`, `cosign.go`, `attest/roster.go` | the signed roster |
| `RecordSeal` | `record/sealed.go`, `sealer.go`, `artifact.go` | the library: Sealer, Verify, altered files |
| `Identity`, `RoomView` | `attest/identity*.go`, `revocation.go`, `record/identity.go`, `netherchat-identity`; `ui/app` trust marks, verdict lines, /verify | `RoomView` extends `Identity` |
| `FileTransfer` | `file.go` | windowed transfer to several receivers |
| `Sneakernet` | `tui/sneakernet` | coordinator, loopback, LAN, burn |
| `Ingest`, `Adapters` | `config.go`, `alert.go`, `route.go`, `api.go`; `connector` and nine programs | `Adapters` extends `Ingest`: the adapters run in front of the relay |
| `Watchers` | `bridge`, `slack`, `teams`, `itsm`, `siemout` and their programs | five daemons of one shape |
| `App` | `ui/app`, `ui/command` | the Bubble Tea program |
| `RelayProofs`, `SessionProofs`, `ActionQuorumProofs`, `SealedRecordProofs`, `AppProofs` | – | proofs of the module each is named after |
| `ClientIOProofs` | – | proofs of `ClientClose` (against `Outbox`), `FileTransfer`, `Sneakernet`, `Watchers` |
| `AttestProofs` | – | proofs of `RecordSeal`, `RosterRound`, `Identity`, `RoomView`, `ArtifactQuorum` |
| `ProgramsProofs` | – | proofs of `Ingest` and `Adapters` |
| `MC*` | – | model values, symmetry, scenarios; `MCPolicies`, `MCSealedRecord`, `MCClientIO` and `MCPrograms` put parts that share no state into one run |

Definitions whose comment starts with *Mutation:* are faulty variants of the definition
that follows them. No specification uses them; each is substituted for its original to see
that a property notices.

### How the relay maps to the code

`pc[c]` is the position of `Server.serve`; one action is one critical section of one mutex
or one private step of a goroutine. `members`, `order`, `idle`, `armed`, `slot`, `tokState`
are the maps of the Go structs. `founder`, `via`, `stale` and `told` are history. Choices:

- `told` holds the connections a scuttle notice was *sent* to; a full buffer may drop it.
- `closing` holds connections whose `Close` has been or is being called by `closeMembers`;
  their reads fail eventually, and until then they still send frames, under their old name.
- `quiet` is one bit for "lastActivity is older than the threshold", for `idle_after` and
  the idle `ttl` alike; `Quiesce` sets it, every frame clears it.
- `hub.Touch` is merged with the handler of the frame that follows it, and `abortBy` with
  the rest of the departure: no other step can tell the difference, except by order of
  unrelated rooms.
- A war-room name is random: nobody says it before `/break-glass` drew it.
- Fan-out changes no relay state and appears in the client modules instead.

### How the client protocols map

`net[s][d]` are the frames of `s` that `d` has still to handle, in order. A frame carries
the epoch it was sealed in; `/vanish` moves to the next epoch and a frame of another epoch
does not open. `rpc` is the read loop between two critical sections of one handler,
`upc` the same for the user's command goroutine, `due` the timer callbacks that wait for
the lock (`time.Timer.Stop` does not recall one that has started).

- `ArtifactQuorum`: one proposal per behaviour. A frame that does not decrypt after a
  `/vanish` is a lost frame here. `mid` is the gap in `ApproveArtifact` between sending and
  taking the lock again; setting `tp.approved` and counting are one step.
- `SealedRecord`, `ActionQuorum`: `VanishOver` is a `/vanish` of the client itself between
  its read loop opening a frame and the handler taking the lock; the frame is then handled
  after the reset.
- `SealedRecord`: SHA-256 is collision-free, so a head stands for its chain. An entry is a
  number, `prevOf` the chain its author signed it onto. The two clock notes are one entry.
  Appending and sending an entry are one step. Members may leave, nobody joins.
- `ActionQuorum`: one `/scuttle now` with a quorum of at least two. Membership is fixed
  until the scuttle. `finalizeReceipt` and the `onDone` it runs are one step. A connection
  is `stopped` when the scuttle control was handled: the server closes it after the grace.
- `RosterRound`: the same goroutines around `cosignRound`. A set of fingerprints stands for
  its hash. Somebody who joins has no key yet, is seen by the others and does nothing.
  Members have distinct keys.
- `Session`: `inbox[c]` is what the relay has queued towards `c`; `todo` the sends left of a
  broadcast whose recipients were fixed under the hub's lock, and the entry in the store
  that follows them in a room that `keeps` history. A key is where its bytes come from: who
  made it, in which epoch, and how far it has been ratcheted. `Wiped` is what a key pointer
  copied before a ratchet points to afterwards: zeroed bytes, from which the next ratchet
  would derive another key. `rd` is the read loop between looking up the key, opening the
  frame and applying it. `slipped` are the clients whose own `/vanish` came in there. A
  client that returns is another connection.
- `ClientClose`: the write loop's `select`, the in-flight slot and the three channels are the
  model's variables; one step is one channel operation or one critical section of `dropMu`.
- `FileTransfer`: the frames towards one client are a bounded queue that drops what does not
  fit; the flush deadline, the stall timer and an abort are steps that may come at any time.
- `RecordSeal`, `Identity`: a signature is the record of what was signed, by whom; an altered
  file is any file reachable by the edits `MaxAlter`/`MaxDamage` allow, without new
  signatures. Time is whole steps.
- `Ingest`: a limiter's level counts in fractions of a request, so that its refill is a whole
  number. A configuration is a decoded TOML file put through `normalize`.
- `Adapters`: between any two calls of the relay another delivery may run; a call can fail
  before or after it took effect.
- `App`: `m` is the Model with the goroutines it started. What the operator types and what
  the cores emit are chosen from `Sittings`. A war room's name has not been used before. A
  line, like a part of a macro, is what leads it (a slash, a slash and a space, or nothing),
  a name and an argument: the loader and the command line take the name of such a part in
  two ways. What a macro has left after a `/quit` is left out: it runs on closed cores.

## 3. Runs

Deadlock is not checked: every instance has finitely many connections, entries, rounds,
requests or lines, and a system in which everybody has left or decided rightly stops.

Bounds: two to four clients or connections, since every hazard listed involves at most two
actors racing and one observer; one room name (two with a war room), because everything is
keyed by name and rooms of different names share nothing but tokens; as many tokens,
timers, entries and rounds as the races need (two rounds for a stale timer or a late
co-signature, three entries for an entry signed onto a fork). `MaxGrace` limits manual burns
in flight, `MaxLoss`, `MaxVanish`, `MaxLeave`, `MaxFlux` the disturbances, `MaxActs` what all
actors start together. A transfer has twice as many chunks as its window, a send queue half
as many slots as there are frames, an event channel one slot, so that each is full at times.
`Skews = {1}` and `MaxTime = 4` let a window open, end, and be off by the skew. The set of
pins is one of none, the first issuer, both: the two issuers are alike.

`RelayAdmission`, `RelayPolicies`, `Seal`, `ClientIO` and `Programs` each check several parts that share no
state: the initial state names the part that runs, and the others stay in one initial state
in which no step of theirs that fairness is about is enabled.

Passing:

| Run | Properties | Shows |
|---|---|---|
| RelayAdmission | TypeOK, OwnedRegistry, TokenOnce, DistributorStable | three connections through the gate of an invite-only room that burns on owner loss and on command |
| | BurnAfterReceipt | quorum two, with a /vanish and the server's own scuttle inside the receipt round |
| RelayPolicies | NoStranded, SlotsAccounted, StaleBeaconPurged | idle, owner-loss and deadline teardowns of a room with transfers and a beacon, against joins and leaves |
| | TwoPerson | a `/scuttle now` with quorum three of three, nobody vanishes |
| Seal | RecordSound, CollectedOnce, SealEnds | entries that fork the chains, clock notes, two rounds, late acks, a /vanish and a departure |
| | ScuttledLeave, JanitorsEnd | everyone told of a burn is gone in the end; no watcher outlives the connections |
| SessionKeys | KeysAgree, FramesInPlace, EpochNeverBack, KeyArrives | founding, joins, departures, two concurrent /vanish, acks, frames waiting for a key; a join of a room that keeps history |
| ClientIO | AcksTrusted, TransferEnds | a transfer to two receivers over queues that drop, with a damaged chunk, refusals and aborts |
| | KeepsPromise, CloseReturns | Close with and without a budget against the write loop and a transport that fails: it implements `Outbox`, and returns |
| | RoomAgrees, BurnEvicts | a LAN room whose listener is up before its host has joined, and its burn |
| | Accounted, DaemonEnds | five daemons, their filters, batches, retries and shutdown |
| | PerformOnce, BurnsUnlessReset | quorum two with /vanish and a server scuttle in the middle; an approved scuttle burns though nobody co-signs |
| Programs | QuorumBacked, AtMostOneWriter | approval with a quorum of all eligible approvers, with loss, rejection, expiry, /vanish |
| | SealerVerifies, EvidenceBacked | Sealer calls in any order, then edits of the file |
| | RosterTrue | two roster rounds with a ratchet, a join or a departure anywhere in between |
| | NamesAreVouched, VerdictMonotone | credentials issued, renewed, revoked, carried into a room and looked at as time passes |
| | LimitsFair | alerts and webhooks repeated, delayed and mixed |
| | NothingSwallowed | each adapter, set up well and badly, with calls that fail before or after the relay acted |
| | EventsFlow, ClientsAnswered, MacrosRun | the interface over joins, leaves, war rooms, streams, full channels and quitting; macros that refer to each other, in every way a part can be written |

`KeysAgree` and `KeyArrives` speak of rooms in which no `/vanish` overlapped somebody's wait
for a key, nobody left and no frame was dropped (`raced`, `SomeoneLeft`): section 5 says what
happens otherwise.

Runs that show the code doing other than its comments say (`findings` in `PROJECT.json`
quotes them):

| Run | Property | What happens |
|---|---|---|
| RelayDeadline | WarRoomCloses | a join that crosses the sweep leaves a war room that is never closed |
| ArtifactFork | AtMostOneWriter | with more approvers than the quorum two clients write |
| ActionLost | ExecutedBurns | a /vanish in the receipt window loses the approved burn |
| FileSlowest | SlowestPaced | with two receivers the window follows the quicker one, and the slower is left more than a window behind |
| AdapterUnknown | UnknownSurfaced | a severity label the adapter does not know is read as medium, and a minimum above that drops the alert with a 200 |
| MacroLoop | CommandsEnd | the macro `wrap = "/ wrap"` passes the loader and, once typed, calls itself for ever |

Each of the last three has a counterpart that passes, so that what does hold is not lost with
it. `AcksTrusted` says that the window follows what some receiver acknowledged;
`NothingSwallowed` that an alert answered with a 200 was accepted, left out by a filter, or
one of those unknown labels (`ReadAsMedium`); `MacrosRun` that of every macro that loads, each
part with a slash and a name stands for commands that exist.

### Fairness

Weak fairness only, and only of goroutines, timers and connections the program itself
drives; Go's scheduler, its timers and the starvation-free `sync.Mutex` justify it. Nobody
has to join, speak, answer or leave.

- Relay: goroutines that can take a step take it, the grace timers fire, and a connection
  the server closes sees its read fail.
- SealedRecord, ActionQuorum: armed timers fire and their callbacks get the lock, and the user's own
  goroutine runs; co-signers need not do anything.
- Session: the relay's goroutines and the read loops run, and a command that was begun is
  finished.
- FileTransfer: the sender's goroutines (its timers are among their steps) and the
  receivers' read loops run; an acknowledgement may still be lost.
- ClientClose: the write loop and the caller of Close run; a send need not end before the
  transport is closed, and then fails.
- Sneakernet: the members' goroutines and the teardown run; nothing is assumed of a peer.
- Watchers: the select loop, the ticker's flush and deliveries run; a delivery ends in any way.
- App, in MacroLoop only: Update goes on with what it has begun.

### Refinement

`Outbox` says in thirty lines what Close promises: frames queued before it leave in order,
none skipped, and each has left or is named in `UnflushedError`; a close that runs out of its
budget may miss the one frame the write loop was just taking up. `ClientClose!Abstract` maps
the write loop, the in-flight slot and CloseWithin's stages to it, and `KeepsPromise` is the
abstract specification as a property of the detailed one.

## 4. Proofs

TLAPS proves the theorems below for every choice of the constants under the named
assumptions of the modules: any number of connections, clients, rooms, tokens, entries,
chunks, events, any bounds. The assumptions say that sets of clients are finite where
something is counted, that marks such as `NoKey` are not clients, that capacities are
positive, and what shape the given scenarios and files have (`ScenarioShape`,
`SittingsAssumption`, `WatchersAssumption`, `ConfigsAssumption`, `SetupsAssumption`: what the
TOML decoder, the flag parser and the JSON decoders produce, with rates that may be any
integer); TLC evaluates each of them on the instances. None restricts what an actor may do.

Each proof has the same course. The invariant a run checks says something of results (what
was counted, surfaced, emitted, returned); the inductive one adds what holds of everything
on its way there (frames in flight, goroutines between two critical sections, timers). It
was checked with TLC on the run's instance, then: it holds initially, one lemma per action
or group of actions shows that a step keeps it, and the last theorem combines these.

| Theorem | States | Inductive invariant, and why it is needed |
|---|---|---|
| `RelayProofs` | | |
| TypeCorrect, RegistrySound, SingleOwner, RegistryOwned | TypeOK, HubConsistent, OneFounder, OwnedRegistry | `HubInv`: a connection that has not joined, or has left, is in no room (`JoinedFirst`), and sits only in the room it said. `owner` is written at Join and read at departure, with teardowns of the name in between |
| NobodyStranded | NoStranded | the same: a told member has a grace timer |
| DistributorIsStable | DistributorStable | an action property, from the same |
| TokensAdmitOnce | TokenOnce | a token that admitted is spent |
| SlotsStayAccounted | SlotsAccounted | `SlotsInv`: the slots held in a room are finite in number, so that one more under the limit is still within it |
| BeaconsArePurged | StaleBeaconPurged | inductive by itself, over the teardown and the purge that follows it outside the lock |
| `SessionProofs` | | |
| KeysNeverGoBack | EpochNeverBack | `SeatsInv` (registry against connections) and `KeyInv`. `onKeyDeliver` overwrites the key unconditionally, so the proof is that it meets no key: `Tok` names the places of a key under way (a request queued, a wrap in hand, a delivery queued), `OneTok` allows one of them per client, `TokWaits` only for one with no key; `Welcomes` says that a founder mints once |
| AcksStayCurrent | PeerAcksCurrent | `AckInv` follows an ack through the read loop: from opening, under a key that may be zeroed meanwhile, to recordAck |
| FramesStayInPlace | FramesInPlace | `OrderInv`: `Line(c)` is one line of all there is for a client: surfaced, in the read loop's hand, pending, in the inbox. Sealing, fan-out, waiting for the key and replay only append to it, drop from it or move its divisions; so it stays sorted by sender |
| KeysStayAgreed | KeysAgree | `AgreeInv`: the holders' epochs differ exactly by the vanishes each has still to hear of: epoch + `Due(c)` is the same for all (`Level`), with `Due` counting the vanish frames queued, in a fan-out, or not yet told. While somebody waits for a key there are none (`Calm`), so a key wrapped or queued is everyone's (`Wrapped`, `Carried`) |
| `ActionQuorumProofs` | | |
| ActionTypes, NobodyActsAlone, PerformsAtMostOnce, BurnFollowsReceipt | ActionTypeOK, TwoPerson, PerformOnce, BurnAfterReceipt | `Counted` (whoever was counted has signed and is not the requester), `InFlight` (so has the sender of every approval on its way), `Gated` (from the decision to perform on, the quorum is there) carry TwoPerson from performing back to signing |
| `SealedRecordProofs` | | |
| RecordStaysSound | RecordSound | `ChainInv`: an entry in flight carries the head it was signed onto, and every chain a client has is one it `held`. `SignInv`: the head a goroutine carries across an unlock was held, and every ack in flight is a signature made |
| SignaturesCollectedOnce | CollectedOnce | `CollectInv`: an open round and a retained seal exclude each other |
| `ClientIOProofs` | | |
| CloseKeepsPromise | KeepsPromise | the refinement: initial states map to initial states, each step to a step of `Outbox` or a stutter. `CloseInv` says where every frame is: `BeforeCollect` until takeUnflushed starts, `WhileCollect` (at most one taken frame is neither sent nor named, and only after a late close) while the write loop runs beside it |
| FileAcksTrusted | AcksTrusted | `AcksBacked`: every count in flight or believed was received by somebody, unless the sender gave up waiting. `Paced`: it is at most a window ahead of that |
| SneakerRoomAgrees | RoomAgrees | `OrderIsServed`, `SendsItsOwn`, `LeftHaveLeft`: a notice of leaving is queued only when nothing its subject sent can follow it |
| DaemonsAccount | Accounted | `WatchersInv`: numbers of events fall towards the back of the queue, everything in a buffer, hand or job is older than what is queued (`PlacedBefore`), so what is taken next is in no place yet (`PlacedOnce`) |
| `AttestProofs` | | |
| EvidenceStaysBacked | EvidenceBacked | `SealerInv`: linked chains and signatures really made over them, through Sealer calls in any order. `FileInv`: however a file was altered its signatures were made, if over something else; Verify recomputes what they must be over |
| SealerOutputVerifies | SealerVerifies | `SealerGood`: outside the sequence section 5 names, what finalize writes passes each check of Verify |
| RosterStaysTrue | RosterTrue | `RosterInv`: every ack in flight, opened or about to be signed is of a view its signer held (`AcksMeant`, `ReaderMeans`), every open round's signatures are over that round's view |
| VerdictAlwaysMonotone | VerdictMonotone | no state: for any credential, pins, moment and statements, from the order of VerifyIdentity's checks |
| NamesStayVouched | NamesAreVouched | `VouchInv`: each row and line keeps a past moment it was decided at (`Decided`, `LineFits`), about a credential whose signatures were made or are garbled (`Known`, through damage, co-signing and filing). `VerdictOverTime`: before its next clock event a verdict cannot change, so re-deciding only the rows that are due leaves every row current (`RowsCurrent`) |
| ArtifactTypes, NoApprovalWithoutQuorum, OnlyApproversWrite, ApprovalIsBacked | TypeOK, QuorumSound, WriterSigned, QuorumBacked | `Vouched`: every approval in flight, and every client between sending and counting, is backed by a signature. Two connections may share an identity |
| ForkNeedsAnExtraApprover | ForkTakesMore | what the election of the writer does give, with nothing assumed of quorum, identities or relay: two people write for one proposal only when more people signed than the quorum asks for. `WriterLowest`: behind every writer is a quorum of signatures, none lower than its own, which outlives the /vanish that forgets what was counted. `AtMostOneWriter` itself is false in general (ArtifactFork) |
| `ProgramsProofs` | | |
| LimitsStayFair, LimitsHoldBehindAdapters | LimitsFair | `LimitsInv` keeps two accounts of every bucket, over each stretch of time that ends now: what was opened was paid for (level + period × rooms opened since s ≤ what the bucket held then and gained since, `PaidAt`), and what is missing was served (`SpentAt`). The first gives the cap of twice a burst per hour, the second that a refusal finds a burst's worth of the caller's own requests in the last minute; the level alone says neither |
| NothingIsSwallowed | NothingSwallowed | `DeliveryInv`: behind a handler's cursor every item was accepted or may be left out (`Done`), and a 200 is answered with the cursor at the end. A filtered severity is a canonical one below the minimum, in each of the nine programs' vocabularies |
| `AppProofs` | | |
| EventsAlwaysFlow | EventsFlow | `AppInv`. `Heard` carries the core whose listener Update has still to start: inside one Update, and across the wait of an echo for a full channel, a connected room has no listener. `OneListener`: with two, events could be posted in either order. `InOrder`: of a core dialled alone, what is shown is older than what is posted, that than what is queued, that than what is still to be numbered; pruning, clearing and stream blocks only drop lines |
| ClientsAlwaysAnswered | ClientsAnswered | `AppInv`. `DialsFit`: a dial that is out and does not say it was left belongs to the room as it is now, and no later dial does; so the client it brings meets no other (`ClientsFit`). `Told`: what was lost is shown, or put by for `Run` to print |

Only model-checked:

- every liveness property (ScuttledLeave, JanitorsEnd, SealEnds, BurnsUnlessReset,
  KeyArrives, TransferEnds, CloseReturns, BurnEvicts, DaemonEnds): fairness and ENABLED are
  beyond the prover;
- MacrosRun is about a recursive check and a recursive expansion: induction over data;
- WarRoomCloses, ExecutedBurns, SlowestPaced, UnknownSurfaced, CommandsEnd, and
  AtMostOneWriter in general are false.

## 5. What the models admit at the edges

The models also admit the behaviours below, most of them consequences of one pattern: a
name, a set or a round is read in one critical section and used in another. They bound what
the properties say; no property claims otherwise.

- Relay: two connections that both find an invite-only room empty both enter without a
  token (`IsEmpty` and `Join` are separate), so `OneFounder` speaks of ownership, which
  `Join` decides, not of admission. A founder whose `Start` falls between the last
  member's `Leave` and `Stop` has no idle janitor. The founder of a torn-down incarnation
  runs the owner-loss rule on its namesake. A connection that joins inside the grace of a
  scuttle is closed without being sent the control, so `NoStranded` speaks of those told.
- Artifacts: an approval that overtakes its proposal is discarded, and it can be the one of
  the client every other one expects to write; then nobody writes.
- Record: concurrent entries fork the chains for good, `ChainLinked` is about each chain.
  The callback of a finished round's timer, late for the lock, closes the next round early.
  A signer who left counts as one of the members `maybeFinalize` waits for. A pending
  request for another head makes every later `/seal` fail.
- Actions: a veto in flight does not stop an action whose quorum the requester has counted.
  A server scuttle handled while the requester's round is open makes it emit a self receipt
  besides the round's, so `OneReceipt` is checked without one.
- Beacons: a room whose members all leave before the grace timer fires is gone without a
  teardown, and its beacon stays until it expires (`beacon.go:5` ties it to the room).
- Session: a key is asked for once per joiner. When the distributor leaves in between, or has
  no key itself yet, the joiner stays without one (`client.go:1205`); `docs/self-hosting.md:655`
  describes the first case and the way out, `/scuttle`. A joined
  or left notice handled before the Welcome is undone by it (`client.go:1118`): a member that
  left in between stays on the roster. A `/vanish` that overlaps a delivery leaves the joiner
  an epoch behind. In a room that keeps history, what is sent between a joiner's `Join` and
  its `History` reaches it twice, so the order of frames is claimed without history. An ack
  that the read loop opened before the client's own `/vanish` and records after it survives
  the reset. A frame sealed or opened while a ratchet zeroes the key it is under fails, or
  is sealed under zeroes.
- Close: a close whose budget ran out may neither send nor name the frame the write loop was
  taking from the queue (around `client.go:868`).
- Transfers: the window follows the quickest acknowledgement (`file.go:153`), so the slowest
  receiver is not paced and may be overrun (FileSlowest); it then fails on its own.
- Roster: the callback of a finished round's timer, late for the lock, closes the next round
  early, with the signatures it has. A member who leaves stays on the snapshot, and the round
  then completes when the remaining ones have signed.
- Record library: a bare co-signature after an endorsement by the same key replaces the
  signature and keeps the endorsement (`sealer.go:118-136`), and `Verify` refuses the record
  that is then finalized; `SealerVerifies` speaks of Sealers without that sequence.
- Identity: numbers of revocation statements are reported and not enforced: what an earlier
  statement withdrew stays withdrawn though one of a higher number leaves it out
  (`revocation.go:58`). A credential that does not parse is "not checked" in one
  sentence and "does not parse" in another (`attribution.go:181-221`). `/verify` resolves a
  member, and looks the handle up again afterwards.
- Ingestion: webhook buckets are keyed by token, so rooms that share one share its cap
  (`config.go:182`). A signed alert repeated within its freshness window opens another room
  (`config.go:150`).
- Adapters: netherchat-alertmanager stops at the first relay error and answers with it; the
  sender's repetition opens a second room for what had already been accepted, as does a
  reply lost on its way. A label outside an adapter's vocabulary becomes "medium" before the
  minimum is looked at (AdapterUnknown), so `MeetsMin` never meets an unrecognized severity.
- Daemons: a client emits its receipt before the scuttle's control event
  (`client.go:1462-1487`), so a notice of the receipt does not yet have the name that
  `cmd/netherchat-slack-notify/main.go:111` expects to have captured. A `select` may prefer
  Done or the signal to events still queued. netherchat-siem-out's final flush races the
  ticker's; each event is in one batch, their order is not kept. Two alert notices before
  one invite is answered share it.
- Sneakernet: Close works from a snapshot and misses a peer still in its handshake; a peer
  may dial in before the host's own client has joined.
- Interface: a room left and joined again while its first dial is out can have two cores
  (`room.go:100`); a late `roomGone` or event is applied by name to the newer room; unread
  counts survive a leave; the status file is not rewritten when a room goes; `/leave` does
  not stop an outbound stream; the answer of a whois lands in the room active by then.
  Update waits for itself when an echo finds the 256-slot event channel full
  (`client.go:1564`), until a failed write ends the core. Done may be noticed before queued
  events (`model.go:279`). Some macros load that cannot be run: a part without a slash
  (`commandName` takes its name, `Parse` refuses the line, `command.go:64`), a bare "/", an
  expansion of separators only, which does nothing, and "/ name", whose name the loader does
  not see (`macro.go:65`): it may be unknown, or the macro itself (MacroLoop).
- Headless `approve-artifact` takes any proposal's sealed event for its own
  (`cmd/netherchat/proposecmd.go:184`).

## 6. Plan

Done: the relay; all client protocols (approval, two-person rule, receipt, record, roster,
session, close, transfer); the record library and identity; ingestion, adapters, daemons;
LAN mode; the terminal program; the first refinement and its proof; the proofs of section 4.

Left: refinements. `ActionQuorum` implements an abstract gate "approved, then performed
once"; `Relay` an abstract room service; `Sneakernet` the relay's fan-out.
