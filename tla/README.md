# Verification of meshvpn2

TLA+ models of the MeshVPN node, TLC configurations that check them, and TLAPS
proofs of the properties that do not depend on the size of the instance.
Paths below are relative to the repository, `src/node.rs` being
`src/src/node.rs` from this directory's parent. `meshvpn-v0.2.0-src/` is a second copy of
the same sources and is not modelled apart.

## 1. Inventory

| Component | State it keeps | Operations | Who it talks to |
|---|---|---|---|
| Node controller, `node.rs` | `state`, `peers` (map), `tunnel`, `tun_device`, each behind its own async lock | `start`, `stop` (`&mut self`); `add_peer`, `remove_peer` (`&self`); readers | owns the tunnel; reads the configuration |
| WireGuard tunnel, `tunnel/wireguard.rs` | `peers` (list), `sessions`, `next_sender_index`, each behind a lock; the UDP socket | `add_peer`, `remove_peer`, `initiate_handshake`, `send_packet`, `handle_packet`, `run` (spawns the receive loop) | other tunnels, by UDP |
| Signaling server, `signaling/client.rs` | `peers` (registered clients), `pending_offers`, one task per connection | `start`, `handle_client` | clients, by TCP |
| Signaling client, `signaling/client.rs` | `stream`, `connected`, an event channel, one read loop per successful `connect` | `connect`, `send_offer`, `send_answer`, `send_ice_candidate`, `read_loop`, `handle_message` | server, by TCP |
| Identity on disk, `main.rs`, `config.rs` | a configuration file with the public key, a key file with the private key | `generate`, `start`, `pubkey` | processes, by the file system |
| ICE agent, `nat/ice.rs` | the list of local candidates, the credentials | gather, add, select, `try_connect`, connectivity check | STUN client; peers by UDP; other agents by offers |
| STUN client, `nat/stun.rs` | none | `query`, `parse_response`, detection of the NAT type | STUN servers by UDP |
| Session descriptions, `signaling/client.rs` | none | `new_offer`, `to_json`, `from_json` | ICE agents |
| TCP stream wrapper, `network/async_io.rs` | `read_buffer`, `write_buffer` | `read`, `write_all`, `flush` | the peer, by TCP |
| Packet router, `network/async_io.rs` | counters of each address behind a lock, an event channel, one task | `take_event_receiver`, `send_packet`, `start_router` | peers by UDP, its owner by the channel |
| Connection pool, `network/async_io.rs` | a list of entries with a time of creation, behind a lock | `add_connection`, `remove_connection`, `get_connection` | callers |
| Crypto, `crypto.rs` | none | key generation and text form, X25519, ChaCha20-Poly1305, hashing | |
| TUN device, `tun.rs` | its configuration | a stub | |
| CLI, defaults, errors | none | | |

`lib.rs` compiles `config`, `crypto`, `errors`, `node`, `tunnel` and `tun`; `signaling`, `nat` and
`network` lie beside them, are not declared in it, and nothing in the compiled part calls
them. They are modelled from their source all the same, as far as it has a meaning.

What makes each part hard, and what makes it correct:

* **Node controller.** Two stores hold the peers, the tunnel's list and the node's map, and
  `add_peer` and `remove_peer` write one, await a lock, and write the other. `start` may fail
  halfway and is never refused, whatever state the node is in. Correct: the state tells what
  the node holds; the two stores agree; a start installs the configuration; each call takes effect
  at once.
* **WireGuard tunnel.** Tasks and the receive loop share the counter of sender indexes and
  the peer list, each lock being dropped before the next step; the network loses, repeats and
  reorders. Correct: no index goes out twice; a response answers an initiation; a session
  is reported only between tunnels that know each other; no work is left half done.
* **Signaling.** Handlers interleave on one registry. TCP is a byte stream without message
  boundaries here: a read may return part of a message or two of them. Connections break,
  clients reconnect while the old connection's handler is still there, the server restarts
  with nothing on disk. Correct: clients learn of each other; the registry lists those that
  are served; calls and loops end.
* **Identity.** Two files written one after the other, each emptied before it is filled,
  by processes that may die or run at once. Correct: the public key that is published is the
  public half of the private key in use.
* **TCP stream wrapper.** A socket takes and gives any part of what it is asked for; a call is a
  future that its caller may drop; the connection breaks or is closed with bytes under way.
  Correct: each direction is a byte queue; what `Ok(())` and 0 say is so.
* **Packet router and pool.** The router counts and announces under a lock and forwards after
  it, while its listener listens; the pool evicts only when it is full, and only by age. Correct: a
  connection is told of once and first; events and counters agree; the pool keeps its limit and
  its young entries.
* **ICE and STUN.** A call takes the first datagram at its address, whoever sent it and whatever
  it answers; a response is a walk over attributes a server has chosen; candidates come in any
  order and offers are read late. Correct: an offer tells what its agent has; the choice does
  not depend on the order; what a call returns can be accounted for.

The hazards, each at its line, are in `PROJECT.json`.

## 2. Modules

### MeshNode (`node.rs`, the peer list of `tunnel/wireguard.rs`)

| Variable | Code |
|---|---|
| `state`, `peers`, `tunnel`, `tunDevice` | the fields of `MeshNode`; `peers[k]` is the endpoint in the `PeerInfo` of key `k`, or `Absent` |
| `wgPeers` | the tunnel's `peers`: the endpoints pushed for each key, in order (lookups take the first, removal takes all, and the order between keys is never used) |
| `lifecycle`, `cursor` | where `start` or `stop` is, and which configured peer it has reached |
| `pending` | the second half each caller of `add_peer` or `remove_peer` still owes |

One action per await that separates two writes: `Start`, `BindTunnel` or `BindFails`,
`CreateTunDevice`, `AddConfigPeer` and `StoreConfigPeer` for each configured peer, `Started`;
`Stop`, `DropTunnel`, `DropTunDevice`, `Stopped`; `AddToTunnel` and `StorePeer`;
`RemoveFromTunnel` and `ForgetPeer`. `&mut self` becomes the guards `AllIdle` (no caller is
half done) and `lifecycle = "idle"`; that the compiler enforces it is what justifies them.
`KeysOf` says which keys each caller manages, `EphemeralPort` whether a second bind can
succeed while the old tunnel lives (`start` builds the new tunnel before the old one is
dropped). The locks are not modelled: each write takes one lock for that write alone. Only the
read guard of the configuration is held across other waits (`node.rs:180`, `196`, `218`), and no
method of the node ever takes that lock for writing. So no call can wait for another for good, and
there is no property that calls return: in the model it would only restate its fairness.

`PeerTable` is the abstract specification of the two stores: one table, of which `Add` and `Remove`
change the list and the map in one step, `Return` changes neither, and `Begin`, `Load`, `Replace` and `End`
are what a start or a stop, which has the table to itself, may do. `Table` in `MeshNode` maps it: the list is
`wgPeers`; the map is `Promised`, that is `peers` with the half that is still `Owed` on each key already
written; the calls are `pending`, and the table is busy while `lifecycle` is not idle. A caller's first
half becomes `Add` or `Remove`, its second half becomes `Return`.

### WireGuard (`tunnel/wireguard.rs`)

`wgPeers` (the endpoints of each key, as in `MeshNode`), `nextIndex` and `running` are the tunnel's
fields and whether it has a receive loop; `job`
is what each task or loop is in the middle of, one stage per lock or send; `sent` is every
datagram ever sent, and any of them may arrive any number of times or never. `known` (auxiliary)
remembers the endpoints a tunnel was given. `SendPacket` and `InitiateHandshake`
begin a job, `LookUp`, `LookUpFails`, `Allocate`, `Transmit` go on with it; `AcceptInitiation`
and `AcceptResponse` are `handle_packet` in the loop. `ReadIndex` is the index as
`handle_handshake_initiation` reads it, one byte before where the encoder has put it;
`WireBase` scales a byte down so that the four bytes stay small.

Nothing ever inserts into `sessions`. So `send_packet` always starts a handshake and drops
its packet, no tunnel sends transport data, and the code for it is not reached: the model has no
sessions. A handshake message is abstracted to its kind, its addresses and its two indexes; its
keys, its timestamp and its encryption are left out, and so are datagrams that do not come from
a tunnel.

### SignalingLinks, SignalingServer, SignalingClient, Signaling (`signaling/client.rs`)

`SignalingLinks` holds the TCP connections. A message in transit is two halves and a read
takes any number of those that have arrived (`Cuts`); `MaySplit` says whether it may stop
inside a message. Writing to a closed end, and closing an end with unread data, resets the
connection. `SignalingServer` has the registry, the offers and one handler per
connection, `SignalingClient` the stream, the flag, the calls and the read loops, and
`Signaling` composes the two over the links they share: a step of one leaves the variables
of the other alone. `registry` counts the entries of each id: the code only pushes to its list,
clears it of an id and copies it, and nothing depends on the order. `told` (auxiliary) is the list
each connection was sent.

`Directory` is the abstract specification of what the server promises: `Join` once, `Look` once at all who
have joined so far, `Listen` as a member. `Book` in `Signaling` maps it: the members are `Listed`; what was
seen is `Looks`, each list sent with the id of its receiver; the listeners are `Listeners`, the clients
whose read loop runs. The rest of the links, calls and handlers is not visible in it.

The actions follow the awaits: a handler accepts, reads one chunk (`ReadRegister`,
`ReadOffer`, `ReadCandidate`, `ReadGarbage`), writes the acknowledgement (`SendAck`) and the list
(`SendPeerList`) separately, ends (`HandlerEnds`, with the cleanup) or fails (`HandlerFails`,
without it, because `?` leaves before it). `Connect` is `connect` up to its first read,
`ConnectSucceeds` and `ConnectFails` the rest; `LoopGoesOn`, `LoopReads`, `LoopEnds` are the read
loop. `Exit` and `Restart` end a process. Clients send no Ping and nobody sends Error, so
these have no actions.

### Identity (`main.rs`, `config.rs`)

`disk` is what each file holds, `proc` what each process is doing. `std::fs::write` empties a file
and then fills it: `Generate` (draws a secret key, empties the configuration), `WriteConfig`, `OpenKey`,
`WriteKey`, with `GenerateDies` after each; `Load`, `LoadKey`, `KeyMissing`, `NodeEnds` are
`start`. The configuration holds the public key and the key file the secret one; a node makes
its own public key of the secret key it has read (`KeyPair`, `crypto.rs`), so it has two.
`drawn` (auxiliary) remembers the keys drawn for each path.

### ByteQueue, TcpStream (`AsyncTcpStream` of `network/async_io.rs`)

`ByteQueue` is the abstract specification of one direction: `Put`, `Take`, and `Lose`, which breaks
the stream and may cost the reader an end of what is on its way. `TcpStream` has the
two buffers of the code, the call that waits (`&mut self` allows one), what the kernels hold of
each direction, and the peer. `ReadBuffered`, `AwaitRead`, `ReadArrives`, `ReadEnds` and `ReadFails` are
`read`; `WriteAll`, `Writes` and `WriteFails` are `write_all`, one `Writes` per `write_buf`; `Cancel` drops the
future of either, `Drop` the stream. The refinement maps the queue to the peer to what the kernels
hold and `write_buffer`, and the queue to the callers to `read_buffer` and what the kernels hold.
`flush` pushes nothing that `write_all` has left, so it changes nothing here.

### PacketRouter, ConnectionPool, AsyncIO (`network/async_io.rs`)

`PacketRouter`: `phase` and `buf` are the task, `connections` its counters, `events` the channel, `listener`
what became of the receiver; `heard`, `arrived` and `sentTo` are auxiliary. `Route` is the part under
the lock with the event of a new address, `Forward` the event of the datagram. `start_router`
consumes the router, so `TakeEventReceiver` and `SendPacket` come before it only.
`ConnectionPool`: `pool` is the list; an age of `MaxAge` stands for every greater one. `AsyncIO` lets
both run in one process; they share nothing. What `retain` and `filter` leave of a list is `Only(s, S)`
of `Retain`, a recursive function, so that the prover can reason about it.

### Stun, Ice, Nat (`nat/stun.rs`, `nat/ice.rs`, `SdpMessage`)

`Stun` and `Ice` hold what the code computes: the attribute walk of `parse_response` with its
panic, the choice of a candidate, priorities, base64, offers as JSON; beside each the reference it
is checked against (`ReadOf`, `IsBest`, `IsBase64`). `Nat` has the agents with their `candidates`, the
`offers` made, each `task` with the call it waits in and the `result` of its last one, and `sent`, every
datagram ever sent, which may arrive late, again or never. `Query`, `TryConnect` and
`PerformConnectivityCheck` send; `Arrives` and `TimesOut` end the wait. Every datagram is kept, and arrives
at any socket its address `Leads` to: the one bound to it, or the one to which `Forwards`, the NATs and
relays, pass what is sent to an outside address, such as that of a server-reflexive candidate. A candidate may be
anywhere, at a server's address too, since it comes unchecked from another agent's JSON, and an agent
may have it twice. The servers answer whatever asks them, from the agents' addresses and from the sockets
of `try_connect`; they write the address the NAT has given the asker (`SeenAs`) as XOR-MAPPED-ADDRESS is written
(`XorCookie`). The requests of the source are 16 bytes long and have no magic cookie, so a strict server
would answer none of them; those of the model are lenient. `GatherCandidates` and `DiscoverPublicEndpoint` end in the panic of
`"stun.l.google.com:19302".parse::<SocketAddr>().unwrap()`, which is no address: what the source has
behind it is not reached.

### MC modules and proofs

`MCMeshNode`, `MCWireGuard`, `MCSignaling`, `MCIdentity`, `MCTcpStream`, `MCAsyncIO` and `MCNat` give the
constants their values. `MeshNodeProofs`, `WireGuardProofs`, `SignalingProofs`, `IdentityProofs`,
`TcpStreamProofs`, `AsyncIOProofs` and `NatProofs` hold the theorems, `DataProofs`
the lemmas about lists, replies, bytes and the choice of a candidate.
The inductive invariants stand with the properties, at the end of each component's module.
Each component module has before its actions mutated forms of some of them; the specification
uses none, each stands for a mistake that one property is there to detect (`PROJECT.json`, "mutants").

## 3. What the runs check

| Run | Shows | Bounds, and why they are enough |
|---|---|---|
| `node_own_keys` | `TypeOK`, `StateTellsResources`, `MapHoldsLatestPush`, `StartInstallsConfig`, `CallsAreAtomic` (refinement of `PeerTable`): starts, stops, restarts, failed binds, and two callers with keys of their own | two keys, two endpoints, two entries of a key: a duplicate, a change of endpoint and a removal all occur; what depends on no bound is proved |
| `node_shared` (violated) | `add_peer` and `remove_peer` of one key interleave to a peer that is in the tunnel and not in the map | two callers of one key |
| `wg` | `WGTypeOK`, `IndexUsedOnce`, `ResponsesAnswer`, `SessionsAreMutual`, `JobsEnd`: two tunnels, a task and a receive loop on each, entries with and without an endpoint | two indexes per tunnel, so a task's initiation and the loop's response contend for the counter; two entries, so duplicates occur; past the bound no new work begins; the safety part is proved for any number |
| `stream` | `StreamTypeOK`, `WritesArriveInOrder`, `ReadsArriveInOrder` (refinements of `ByteQueue`), `ConfirmedHandedOver`, `EndMeansAll`, `WritesEnd` | chunks and slices of no byte, of one and of two, buffers and pipes of two: every chunk, slice and transfer splits; four bytes each way, so that a cut-off write is followed by another; the safety part is proved for any sizes |
| `async` | `RouterTypeOK`, `ConnectedFirst`, `EventsTellCounts`, `PoolTypeOK`, `YoungStay` | two addresses and three datagrams: one address comes back; two peers in a pool of two, which fills with old, young and mixed entries; ages up to two; the safety part is proved for any number |
| `nat` | `NatTypeOK`, `OffersTell`, `AnswersRead`, `SelectsBest`, `SuccessExplained` | three agents, one of them in an `IceLiteAgent`, behind one NAT that forwards to another; two tasks, so that one call gets what another has asked for; two candidates of each agent and two offers: host, server-reflexive and relayed ones in any order and any of them twice, the relay being a server; two datagrams: a request and its answer, or two requests; replies with an address last, behind a MAPPED-ADDRESS that the code skips, and between an attribute that is padded and one that is cut; proved for any number |
| `nat_query` (violated) | `QueryTellsAddress`: a query does not return the address that the server has seen | as `nat` |
| `sig_once` | `ListsMeet`, `ListedWhileListening`, `ServesAsDirectory` (refinement of `Directory`): clients that connect once, with reads that stop anywhere | three clients, so that lists, joins and splits of three handlers interleave |
| `sig_again` | `SigTypeOK`, `RegistryExplained`, `NothingIsHeard`, `ConnectReturns`, `LoopsEnd`: a client that reconnects and exits, one that sends, and a server restart, with reads that stop between messages | one reconnection and one restart: an old connection's handler beside a new one's is the case that matters; the safety part is proved for any number and for reads that stop anywhere |
| `sig_listed` (violated) | the cleanup of an old connection removes its client's newer entry | |
| `sig_ack` (violated) | acknowledgement and list arrive in one read, which does not parse, and `connect` fails | |
| `id_files` | `IdTypeOK`, `IdentityMatches`, `IdentitiesDiffer`: two processes, two configurations, generation over earlier files, deaths anywhere | three secret keys: two for one path and one for the other; proved for any number |

The signaling, identity and stream configurations turn the deadlock check off: when connections,
messages or keys are used up and every client has gone, or a stream is dropped, nothing remains to
be done.

`ListsMeet`, `ListedWhileListening` and `ServesAsDirectory` hold for clients that connect once and stay, and need
that: `sig_listed` shows what a reconnection does. `RegistryExplained` is what is true with
reconnections, exits and restarts. `CallsAreAtomic`, like `MapHoldsLatestPush`, is about callers with keys of
their own; `node_shared` shows what happens to callers that share one.

What the code does and its comments do not say, beyond the violated runs:

* A peer that is added while the node is stopped is in the map of the running node and not in its
  tunnel: `start` gives a new tunnel the configuration's peers only (`node.rs:220`).
* After a successful `connect` no send succeeds: the stream has moved into the read loop
  (`client.rs:218`, `client.rs:259`).
* A response does not carry the initiation's index: the reader starts one byte before where the
  encoder has put it (`wireguard.rs:281`), so the index comes back shifted by the length byte.
* A bind that fails leaves the node in `Starting` (`node.rs:129`).
* A key added twice is reported by `get_peer` with its second endpoint, and the tunnel sends to
  its first (`node.rs:257`, `wireguard.rs:139`).
* A response is logged as "session established" and nothing is stored (`wireguard.rs:310`).
* The tunnel makes its own public key of the private key by SHA-256 (`wireguard.rs:480`), which is not the
  node's, made by X25519; no message is ever decrypted, so it makes no difference.
* The list of peers produces no event, its second `match` arm being hidden by the first
  (`client.rs:341`), and offers are stored and not forwarded (`client.rs:129`);
  `NothingIsHeard` states the result.
* A client whose handler fails stays registered (`client.rs:118`), as `RegistryExplained` allows.
* A read that stops inside Register leaves `connect` waiting for good, because each chunk is
  parsed by itself and it has no timeout (`client.rs:241`); `ConnectReturns` is therefore
  checked without splits.
* `start` does not compare the two keys it has loaded (`main.rs:106`): after a second
  `generate`, killed between its two files, a node runs with a key that is not the published
  one. `IdentityMatches` states what is left.
* A `write_all` that fails or is cancelled has its rest sent by the next one (`async_io.rs:46`): the
  peer gets every byte, the caller cannot tell which.
* Two ends that both write with full pipes wait for each other; `WritesEnd` has the premise that the
  peer reads.
* `send_packet` counts nothing, since no address is known while it can be called
  (`async_io.rs:173`), and `PeerDisconnected` is never sent.
* `get_connection` returns the oldest entry of a peer, however old, and adding does not replace it
  (`async_io.rs:248`).
* Asking for the public servers and gathering candidates always panic (`stun.rs:126`, `ice.rs:219`).
* `parse_response` takes the ip of XOR-MAPPED-ADDRESS as it was written, with the bits of the magic cookie
  flipped, and the port from the two bytes behind the attribute: the type of the next one, or a panic if
  there is none (`stun.rs:77`, `stun.rs:82`). `nat_query` shows it, and `AnswersRead` states what is returned.
  MAPPED-ADDRESS, which its error names (`stun.rs:95`), it does not read.
* A request has a header of 16 bytes and no magic cookie (`stun.rs:32`, `ice.rs:270`), where 20 are read of a
  response.
* A query may get the answer another one has asked for.
* No agent answers a binding request, so a candidate that is tried never answers. A check that says
  "succeeded" (`ice.rs:297`) has got a server's response, or the request of somebody who tried a candidate
  that leads to its own socket; `try_connect`, whose port
  nobody knows beforehand, says "Successfully connected to remote candidate" (`ice.rs:250`) when the candidate is at the
  address of a server. `SuccessExplained` states it. With `nat_query` this is what is left of the "NAT
  traversal" of `README.md:11` and `lib.rs:7`: no connection of two agents is ever verified.
* The remote candidates' priorities do not matter to the choice (`ice.rs:315`).

### Fairness

`WireGuard`: weak fairness on the steps of a call that has begun, because a future that is
awaited is polled until it is done, and each of the tunnel's locks is dropped before the next
lock or wait (`wireguard.rs:150-156`, `243`, `283-288`). Nobody has to make a call, no datagram has to arrive. `Signaling`: weak fairness
for each handler, each read loop and each waiting `connect`, because a readable socket wakes its
task. A client does not have to connect, a process does not have to end. `TcpStream`: weak fairness
for the call that waits, polled when its socket is ready; the peer is not fair, and `WritesEnd`
says what it needs of it. `MeshNode`, `AsyncIO` and `Nat` have none, since only safety is checked there. In
`MeshNode`, `WireGuard` and `Signaling` we assume that a future once polled is not dropped: nothing in
the source cancels one. `TcpStream` is a library type and its calls may be cancelled.

## 4. What is proved

For any set of keys, endpoints and callers and any configuration (`MeshNodeProofs`):

* `NodeInvariant`: `NodeInv`, which is inductive. `StateTellsResources` is not inductive alone,
  since `Started` must know that the tunnel is there: `StageDone` says what each stage of
  `start` and `stop` has done, and `Exclusive` that nobody else is in the middle of a call then.
  `TypeCorrect` and `StateIsTruthful` follow.
* `StoresAgree`, assuming `KeysDisjoint`: the map holds the endpoint that was pushed last. The
  inductive part is `HalfDone`: between the halves of a call the tunnel is as the first half left
  it, because nobody else has that key. Without the assumption the property fails.
* `ConfigurationInstalled`: a start that succeeds has put each key into the tunnel as often as
  the configuration lists it. `Loaded` counts what is there so far, by the entries before
  `cursor`; `FirstEntriesStep` adds one to the count.
* `CallsTakeEffectAtOnce`, assuming `KeysDisjoint`: the node implements `PeerTable`, each of its steps being
  mapped to a step of the table or to a stutter. At most one half is owed on a key (`PromisedAlone`
  during a start or a stop, `PromisedToOne` otherwise), so a first half changes `Promised` as the call
  means it, and a second half leaves it alone because it writes what was owed.

For any processes, paths and secret keys (`IdentityProofs`), assuming `KeyFilesApart` (no key
file is shared, and none is a configuration): `IdTypeCorrect`, `KeysAreOwn`, `KeysAreApart`. The
inductive invariant `IdInv` says that whatever a file or a process holds was drawn for the
path in question, and that no key was drawn for two.

For any tunnels, tasks, entries and bounds (`WireGuardProofs`), as long as no counter reaches the
last index, where a `u32` would wrap (`WGBoundAssumption`): `WGTypeCorrect`, `IndexesDiffer`,
`ResponsesAreAnswers`, `SessionsMutual`. The inductive invariant `WGInv` adds to the types

* `Roles`: a task makes initiations, a receive loop responses, both in their node's name;
* `RoomLeft`: indexes are left for all that will yet draw one, so that no counter wraps;
* `DrawnOnce`: indexes sent, and held by a job, lie below the counter and differ. `IndexUsedOnce` speaks
  only of the step that sends; what makes it true is that two jobs never hold the same index;
* `Accounted`: each address in a list, a job or a datagram was given to its tunnel, and each
  response, sent or under way, answers an initiation. `known` is needed because peers may be
  removed between the check of the address and the send.

For any bytes, chunks, slices, buffers and pipes (`TcpStreamProofs`), assuming `StreamAssumption` (buffer and
pipe have room for a byte; chunks and slices may be empty): `StreamTypeCorrect`, `ConfirmedIsHandedOver`, `EndIsTheEnd`, and the
two refinements `WritesAreOrdered` and `ReadsAreOrdered`, each step of the stream being mapped to a step
of `ByteQueue` or to a stutter. The inductive invariant `StreamInv` adds to the types and these properties
`NoneLost` (every byte given to `write_all` is counted somewhere while the stream can write),
`NoneMissed` (what the peer has written is what was read and what is on its way) and `NothingAfterEnd`.
`EndMeansAll` needs the last two: it speaks of a moment when nothing is on its way any more.

For any clients, connections, messages, exits and restarts, with reads that stop inside a message or
not (`SignalingProofs`): `SigTypesHold`, `RegistryIsExplained`, `NobodyHears`. `SigInv` adds to the types

* `HandlersFit`: what a handler is in the middle of belongs to the client its connection was
  opened by, and what it has registered is that client;
* `Messages`: each direction of a connection carries only what its end may write;
* `Unread` and `NothingToHear`: a message that would be an event may be under way only where nobody
  will read it. `NothingIsHeard` speaks of the channel of events, and follows only from what is on its way.

For clients that connect once and stay: `ListsDoMeet` and `ListenersAreListed`. The inductive invariant
`StayInv` says that a connection stays (`Stays`), that a list is sent only after its receiver
was registered (`RegistersFirst`) and that an id is registered once (`RegisteredOnce`). The assumption
`ConnectOnce` is needed: `sig_listed` shows what happens without it. From the same invariant,
`ServerIsDirectory`: handlers, links and clients together implement `Directory`. `ReadRegister` is a `Join`,
`SendPeerList` a `Look` at the registry of that moment, a successful connect a `Listen`, and
every other step leaves the three as they are.

For any addresses, data, peers, number of datagrams, sizes and ages (`AsyncIOProofs`):

* `RouterTypeCorrect` and `ConnectionsComeFirst`. `ConnectedFirst` is not inductive: that the task
  announces an address when it is new to the map says nothing of what the listener was told unless both
  agree, which is `MapTold`, while `CountedFirst` says that the datagram between the two steps is of a known
  address, and `NobodyYet` that a receiver taken again has missed nothing;
* `CountersAgree`: what the events say of an address and what is still in the task's buffer add up
  to its counter. The other half of the invariant is `LastIsBuffered`: the datagram between the
  counter and its event is the last one that arrived;
* `PoolTypeCorrect`, with the order of the ages and the limit, and `YoungAreKept`, an action property: only time, or a call that
  removes it, takes an entry that is not expired;
* `BothAtOnce`: `AsyncIO` implements the router's and the pool's specification, so that all of this
  holds of both together.

The pool's proofs rest on `DataProofs`: what `Only` leaves of a list that grew by one, that doing it
twice is the same, and that it keeps the order. The library's induction theorems take operators as
parameters, which the provers cannot instantiate; `Induct` and `SeqInduct` state induction over a set
of numbers or of sequences instead, and follow from the least number of a set. `Recursion` is the
same for definitions: a function on the numbers that is given step by step exists, so a recursive
function (`Walk`, `ByPriority`) is what its definition says.

For any agents, tasks, candidates, forwarding, replies and bounds (`NatProofs`), assuming `AddressAssumption` (the
addresses of servers, of sockets and those outside are distinct; a candidate may be at any of them):
`NatTypeCorrect` and `SuccessIsExplained`. The inductive invariant `NatInv` says of each datagram where it came from and whom
it answers (`SentFit`), of each call what it waits for (`NatTasks`), and of each offer that it
is an earlier state of its agent's list (`OffersFit`). The other three need, besides, what the pure functions compute of
the data, which `DataProofs` proves for all data:

* `OffersStayTrue`: `EncodesBase64`, that the digits `base64_encode` makes of any bytes hold their bits,
  and padding behind them (`DigitBit` bit by bit, `DigitKinds` for what is padding);
* `AnswersAreRead`: `MappedReads`, that walking over the words of a reply as `parse_response` does comes to the
  last address in it, as it was written, and the type behind it. It goes backwards: `WrittenLies` says at which word each
  attribute begins. `ReplyAssumption` says what servers write: addresses of IPv4 are whole, and only
  the last attribute may be cut;
* `SelectionIsBest`: `BestIsBest`, that the first match of the sorted list is of the best type both sides have, in
  the order the other side named it. It rests on `Sorts` and on `PriorityTells`, that a priority
  tells the type; this is where `CandidateAssumption` is used, that priorities are what
  `calculate_priority` makes of a preference below 2^16. The source has 65535 only.

The assumptions on constants are named in the modules that declare them, and TLC evaluates them.

Only model-checked: liveness (`JobsEnd`, `ConnectReturns`, `LoopsEnd`, `WritesEnd`), which the
prover does not do. That `ReadIndex` loses the last byte of
the index does not matter to the theorems, which hold of what the code reads.

## 5. Not modelled

* Encryption, hashing, the nonce: functions of external crates, without state, which no reachable
  code uses, since no session is ever stored.
* Transport data and `sessions`: never reached (see WireGuard above).
* `detect_nat_type`, the server-reflexive and relayed candidates of `gather_candidates`: behind the
  panic that every call of them meets first.
* Datagrams that no tunnel, agent or server has sent; the models are about the program among itself
  and with the servers it names.
* `set_remote_credentials` and `last_seen`, which nothing reads; `PeerDisconnected`, Ping and Error, which
  nothing sends; answers (`new_answer` is not in the source).
* CLI parsing, default values, the layout of the configuration file, error types: data.
* `AsyncUdpSocket`: hands each call on to the socket it wraps.
* The TUN device beyond its existence: a stub.
* A second `run` on one tunnel; nothing calls it twice.
* A sender index past its wrap at 2^32, and datagrams shorter than the program sends.

Some of the uncompiled modules would not compile as they stand: `take_event_receiver` hands out its
receiver through a pointer, `get_connection` clones a type that has no `Clone`. They are modelled
by their evident intent.

## 6. Plan

Done: the node, the tunnel, signaling, identity, async I/O, ICE and STUN; a theorem for every
safety property of the passing runs; the peer table and the directory as abstract specifications.
Left, in the order of what matters to the system:

1. **Node and tunnel composed**: the node's peer table feeding the list that the tunnel's tasks look
   their endpoints up in, so that `known` of `WireGuard` comes from the node's calls.
2. **Handshakes as an abstract request and answer**, which two tunnels implement.
