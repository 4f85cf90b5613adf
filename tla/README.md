# N02 Kaillera client: TLA+ models and proofs

N02 (`kailleraclient.dll`) lets the emulators of several players run one game in
lockstep. Each emulator calls `kailleraModifyPlayValues` once per frame with the
local input and gets back the inputs of everybody; the game stays the same on all
machines exactly if everyone is given the same frames in the same order. This
directory models the parts of the client that have to make that true over UDP, with
several threads, players who leave at any moment and nobody acknowledging anything.

Contents: [the system](#the-system), [the modules](#the-modules),
[what the runs check](#the-runs), [what is proved](#what-is-proved),
[what is only model-checked, what is not modelled](#limits), [the plan](#the-plan).

To check everything: `tlc -config <cfg> <module>` for the pairs in the table of runs, and
`tlapm XProofs.tla` for `X` = `KMessage`, `Loop`, `KGame`, `P2PGame`, `Room`, `Lobby`, `LiveStream`,
`Client` (minutes each for `KGame`, `Room`, `Lobby` and `Client`, less for the others).

## The system

### Components

| component | source | state | operations | with whom |
|---|---|---|---|---|
| reliable UDP to a server | `kcore/k_message.h`, `common/k_socket.cpp` | `out_cache`, `in_cache`, three serials, the hole timer, `has_data_waiting` | `send`, `resend_message`, `check_recv`, `has_data` | called by everything in `kaillera_core.cpp` |
| Kaillera game session | `kcore/kaillera_core.cpp` 861-1119 | `PLAYERSTAT`, `frameno`, `USERDATA`, `gv_queue`, the 256-entry data cache | netsync, `modify_play_values`, `game_drop`, `end_game` | emulator thread, window, server |
| Kaillera lobby and room | `kcore/kaillera_core.cpp` 102-850, `kaillera_ui.cpp` | `USERSTAT`, `PLAYERSTAT`, `owner`, `*_requested`, ids; the window's page and tables (`g_room_mc`, `g_room_accounts`, `g_login_checks`) | connect, create, join, leave, kick, start, `kaillera_step`; the chat lines that carry cards, accounts and the multitap | window and stepping thread, server, site |
| retry-connect | `kcore/kaillera_retryconnect.cpp`, `kaillera_core.cpp` 493-587, 672-786 | `g_active`, reader position, one-place mailbox, pending announcement | select, control, NAK, go live, upload/download state | host, peers, frontend |
| frontend state machine | `kailleraclient.cpp` 541-857 | `KSSDFA` (two 2-bit fields), `active_mod` | `SelectServerDialog`, `ModifyPlayValues`, `EndGame` | GUI thread, emulator thread, core callbacks |
| P2P messages | `core/p2p_message.h` | `out_cache`, `in_cache`, 8-bit serials, `default_ipm` | `send`, `send_message`, `check_recv(x)` | `p2p_core.cpp` |
| P2P lobby, handshake and game | `core/p2p_core.cpp`, `p2p_ui.cpp` | `status`, `USERREADY`/`PEERREADY`, `USERDATA`, `PEERDATA`, `frameno`, `throughput`, chat cache; the tables of cards | log-in, Ready, the start, `modify_play_values`, `drop_game`, `p2p_step` | the other player, window, site |
| streaming | `common/n02_stream.cpp` | queue of 8192 records, the pending batch, its sequence number, the stream offset | push, drain, POST with retry, state upload | emulator thread, sender thread, HTTP server |
| watching | `common/n02_watch.cpp`, `player.cpp` | prefetch buffer, offset, `finished` | start, poll, drain, restart | prefetch thread, emulator thread |
| recording, playback | `kailleraclient.cpp` (`RecordingBuffer`), `player.cpp`, `common/krec_reader.h` | the file, position, frame index | write, flush, open, next record, seek, list | emulator thread |
| finding each other by code | `p2p_ui.cpp` 218-591, 1427-1591, 1974-2058 | `g_p2p_trav_*`: code, deadlines, attempts; the socket's one address | REG, KEEP, CLOSE, JOIN, punch, LOGN_REQ, the try at the plain address | traversal server, the other player, routers |
| WE Camp account, voice call | `common/n02_wecamp.cpp`, `kailleraclient.cpp` 264-355 | token, name, Discord in memory and in `n02.ini`, `g_voice_game` | load, log in and out, requests with a copied token, `VoiceJoinThread` | site, other windows, dialogs |
| instructions | `kcore/k_instruction.h`, `core/p2p_instruction.cpp` | a buffer and a position | store, load, write, read | everything that sends |
| online replays | `common/n02_replays.cpp` | none | download, upload, list | HTTP server |
| memory cards online | `kailleraclient.cpp` 840-1440, `common/n02_wecamp.cpp`, `n02_mcchoice.cpp` | `g_mcs`, the card session of a match, and the copies its threads work on | choose, fetch, hand back | HTTP server, frontend |
| updater | `common/n02_update.cpp` | the files and their `.new`, `.old`, `.old2` names | check, download, swap, undo, start again | file system, other processes, site |
| user interface | `kaillera_ui*.cpp`, `p2p_ui.cpp`, `uihlp.h` | windows | dialogs | all of the above |
| containers, settings, statistics, errors | `common/*.h`, `stats.cpp`, `errr.cpp` | counters, lists | | all of the above |

### What is hard in it

* **Datagrams.** Neither message layer acknowledges anything. A message is repeated in the
  bundles of the next two messages (server mode) or the next `default_ipm - 1` (P2P), and in
  retransmissions while somebody waits. Whatever a run of losses takes away is gone: server
  mode skips the hole after 250 ms, P2P takes an empty message instead.
* **Serials** of 16 and of 8 bits wrap during a game; distances decide what is new.
* **Two ends that must agree** without talking about it: the data cache GAMCDATA indexes, the
  delay before the first frame, the order of frames.
* **Threads.** The emulator thread loops inside `modify_play_values`; the window's thread drops
  the game, leaves the room and steps the core; `KSSDFA` is written by both.
* **Waiting.** netsync, the frame loop and the P2P handshake wait for other players who
  may have left.
* **Leftovers.** Queues and counters of one game are still there when the next one starts.
* **Crossing.** A room is an order of messages everyone reads at its own pace: a start crosses a
  leave, a ticket's verdict the player who left, a Ready the peer's Ready.
* **Failure in the middle.** A download, a rename or a POST fails, or the process is killed,
  after the steps before it were made.

`PROJECT.json` lists each hazard at its line, with the properties that watch it.

### What makes each component correct

* message layers: order, no repetition, no invention; no loss as long as the redundancy
  covers it; no freeze; bounded buffers.
* a game: *lockstep* (`Lockstep.tla`); nobody waits for a packet he has not filled; the two
  ends of the data cache agree; every call returns.
* room: what the window shows follows the server's echoes, a kick is told from a leave, and nobody
  starts a game alone.
* memory cards: every PC works out the same slots, and a slot is only filled for an account that was
  confirmed.
* P2P lobby: both players start or neither does.
* updater: what is installed is whole, of one release, and never older.
* codes: every search ends, and the two ends write to each other's present address.
* account: a login ends for a reason, never by an answer meant for an older one.
* a match's card: a finished save reaches WE Camp from some PC, and no PC's send replaces a newer card.
* recordings and instructions: what is read is what was written, frame by frame and field by field.
* retry-connect: everybody serves its own copy of the recording and goes live from the host's state.
* frontend state machine: the loop does what the last START or END asked for; the connection is never
  deleted while the other thread uses it.
* streaming/watching: the spectator's bytes are the host's, without gap or repetition, and a
  state is tied to the offset at which it was taken.

## The modules

```
OrderedChannel  <-- implemented by --  KMessage   (KMessageProps, MCKMessage, KMessageProofs)
Lockstep        <-- implemented by --  KGame      (KGameProps, MCKGame, KGameProofs)
                <-- implemented by --  P2PGame    (P2PGameProps, MCP2PGame, P2PGameProofs)
KGame's netsync loop in detail:        KNetSync   (LoopProofs)

around a game on a server:   Room, RoomSetup, RetryConnect          together in MCLobby
                                                                    (RoomProofs, LobbyProofs)
while a game is played:      P2PGame, Frontend, Teardown,
                             LiveStream                             together in MCPlay
                                                                    (ClientProofs, LiveStreamProofs,
                                                                    LoopProofs, P2PGameProofs)
around a client's games:     P2PLobby, WatchLive, Updater           together in MCClient
                                                                    (ClientProofs, LiveStreamProofs,
                                                                    LoopProofs)
written here, read there:    Instruction, KMessage, Recording,
                             MatchCards, Account                    together in MCRecords
                                                                    (ClientProofs)
waits under loss:            KNetSync, P2PGame, Traversal           together in MCWaits
                                                                    (LoopProofs, P2PGameProofs)
```

A module `X` has the state and the actions of the code, `XProps` the properties (where there is no
such module they stand at the end of `X`), `MCX` the values TLC uses and `XProofs` the proofs;
`LobbyProofs` has those of `RoomSetup` and of `RetryConnect`, `LiveStreamProofs` those of `WatchLive` too, `ClientProofs` those of `Teardown`, `Updater`,
`Account` and `MatchCards`, `LoopProofs` those of `KNetSync`, `Traversal`, `Frontend` and `P2PLobby`.

**KMessage** - one sender and one receiver of `k_message`. `sent`/`outCache` are
`last_sent_instruction`/`out_cache`; `rx` is `last_cached_instruction`, `in_cache` and the
hole timer; `waiting` is `has_data_waiting`. `Send`, `Resend` are `send` and
`resend_message(5)`; `CheckSockets` is `k_socket::check_sockets`; `ReceiveBundle`,
`ReceiveNothing` are `check_recv` called as every caller does, under `has_data()`;
`HasData` is a `has_data()` of its own, which may give up a hole; `HoleTimeout` is the passing
of `KMSG_HOLE_SKIP_MS`. `Resync`, `Extend`, `FillSlots`, `SkipStaleHoles` and `HandOver` are
the five stages of `check_recv`. The network (`net`, `Lose`, repetition in `ReceiveBundle`)
may lose, repeat and reorder. A message's content is its number.

**OrderedChannel** - what the layer promises: messages come out in the order sent, none twice;
some may be missing.

**KGame** - one game on a server, from GAMEBEGN on. Each player has an emulator thread
(`thread`: out of MPV, in netsync, in the loop) and a window (`GameDrop` at any moment). The
connections are ordered channels, which is `KMessage`'s promise without loss of messages. The
server is external and written from what the client's handlers need: it waits for everyone's
GAMRSRDY, collects the frames of all players, cuts them to each player's `conset`, and
replaces a packet it has sent before by its place in the cache. `Init` allows any leftovers of
an earlier game, in the client and on the wire. `LobbyStep` is `kaillera_step`, which runs again as
soon as the game is over here, even while the emulator thread is still inside MPV.

**KNetSync** - the loop of `kaillera_GameStartSequence` in detail: a datagram repeats the
messages before its newest, as many as a bundle of `k_message` holds (3, `k_message.h:91`), `select()`
before `has_data()`, the time-out and the resend. The slots of `in_cache` are the
messages from `passed` to `got`; holes, the new start after a gap of 10 and the running over of its 16 slots
are there, the time after which a hole is given up is left open (`KMessage` has it). A datagram that
comes further ahead than it repeats, or finds no room, sets `strayed`, and of such a player
`Backlog` and `ReadyIsRead` say nothing: the head of his queue may be a hole, and the loop then reads a datagram
without handing anything over.

**Lockstep** - what both modes promise: there is one sequence of frames; each
emulator is given that sequence from its start; frame k holds what each player typed at his
k-th call, and only players who left may be missing.

**P2PGame** - the game of two players after the handshake. `Call`, `Receive`, `Retransmit`,
`Return`, `Fail` are the parts of `p2p_modify_play_values`; `GameDrop`, `DataTimeout` the two
callers of `p2p_drop_game`; `Fresh` is `check_recvx`. A message no datagram carried in time
is `Empty`, and `Receive` ignores it as `ProcessGameStuff` does.

**Room** - logging in to a server, its rooms, and what the window shows of them. The client's
variables are `USERSTAT`, `PLAYERSTAT`, `owner` and the `*_requested` flags; each `On...` action is
one `case` of `kaillera_ProcessInstruction` with the callback it makes, each request one function of
`kaillera_core.h`. The server is external: it handles a request when it is sent and puts its
messages into every inbox, in order; `Skip` is a message `k_message` gave up. `awaiting` is the message that
answers a user's last request, which a patient user waits for. `idOf` is the id the server gives a connection, and
`userId` is `KAILLERAC.user_id`: neither `kaillera_core_cleanup` nor `_initialize` resets it (`kaillera_core.cpp:131-137`,
`:185-192`), and only who creates a room learns its own, so that over a reconnect it may become another player's id.
`belief` records it: `"stale"`, `"own"`, or `"misled"` once another's GAMRLEAV was taken for the user's own (`:471`).

**RoomSetup** - the chat of a room that has a meaning: `[M. Card]` choices, the host's question for
a ticket of the WE Camp account and its answer, the accounts the host confirmed, the multitap. Every
PC keeps its own tables; `GameSlots` (`n02_mcchoice_game_slots`) turns them into the two slots when
GAMEBEGN arrives (`ReadBegin`). `Verdict` is the worker thread's result.

**RetryConnect** - the players of a room continue a recorded game: `HostSelect`, `ReadSelect`
(download or NAK), the frames served from each player's own copy, the one-place mailbox (`Poll`), and the
states the host uploads when it pauses and rewinds. The frontend is external; an emulator is the sequence of
inputs it has played, so that a copy cut by a broken connection (`DownloadReplay`), which counts as whole, shows
up as other inputs, and `Fetch` and `Put` are the transfers of a state that fail, are cut or lose their answer.

**Frontend** - the word `KSSDFA`: three threads, each with the assignments it is about to make;
an assignment to a bit field is `LoadWord` and `StoreWord`. `LoopTest`, `LoopIndex`, `LoopAct` are
the three accesses of the loop of `kailleraSelectServerDialog`.

**Teardown** - `kaillera_step` in one thread, `ConnectToServer` with `kaillera_core_initialize` and
`_cleanup` in another, one action for every access to what they share.

**P2PLobby** - two players without a server: log-in, cards and accounts over the chat, Ready, and
the start up to the first frame (`Begin` to `FirstFrame`), where `P2PGame` goes on. The queues
`net` stand for `p2p_message`: what is lost is repeated by the next datagram. The host's Ready waits for two checks:
the client's account's (`CheckEnds`) and, if a card is the ISO's, that no other match holds it (`WaitsForIso`,
`IsoCheckDone`); either begins anew when a ticket comes late or the client changes its card (`HearAnswer`, `HearChoice`).
`Drop` is `p2p_drop_game`, which the button (`p2p_ui.cpp:2160`) and the emulator (`p2p_EndGame`, `:1380`) may call at any
moment: in one of the loops of the start it sets `KSSDFA.state` to 0 (`quits`) and, once the other's LOAD was read, the
status back to 1 (`undone`), while the loop goes on.

**LiveStream** - the host's record queue, the sender thread (`StreamDrain`, `PostBatch`, `Retry`,
`NextBatch`), the thread that hands out states, and the server's file, which takes a batch once.

**WatchLive** - the spectator's side of that file: the thread that fetches chunks (cut anywhere),
the buffer `player_MPV` reads from, the snapshots, rewinding and jumping to the live edge. The file is a header and whole
records, the inputs numbered in their order (`WholeRecords`), as `n02_stream_push_frame` and its siblings push them.

**Updater** - files under the names `x`, `x.new`, `x.old`, `x.old2`; every call of the file system is a
step that may be refused, and `Kill` may come between any two. `Publish` is the site.

**Traversal** - how two players without a server meet: the host registers for a code and keeps it alive,
or hosts by IP (`OpenHost`, `HostTimer`, `HostRegok`, `HostMyIp`); a joiner asks for the host of a code, punches
and sends its LOGN_REQ to the address it was told and, once, to the plain one (`OpenJoiner`, `JoinerTimer`,
`JoinerHost`); both log each other in (`HostRequest`, `HostConfirmed`, `JoinerAccepted`), and the code goes back.
`h` and `w` are the windows' `g_p2p_trav_*` and the parts of `P2PCORE` they read; a counter ending in `In` is a
deadline in beats of the window's timer. Routers, the traversal server and ssrv are external. `P2PLobby` goes on.

**Account** - the login that all windows of a PC share through `n02.ini`. `call[v][s]` is a request on its way:
what it was asked with, what came back. `Login`, `Logout`, `RefreshDiscord`, `GetTicket`, `VerifyTicket`,
`VoiceWaits` and `VoiceEnds` are what happens when the answer is there; `ForgetRefusedLogin` is the function of
that name up to its reading of `n02.ini`, and `ClearRefused` the rest, a step of its own: what the thread
found is in `found`, as in the function's `saved`. The site is external.

**Instruction** - the two codecs, byte by byte where lengths matter: strings that are cut, numbers that end in 0,
the length byte. **Recording** - `RecordingBuffer` and its flush, a file cut off anywhere, `krec_reader` with the
10 bytes it leaves, playing, seeking and the scan for the list; a record stands for the bytes it takes.
**MatchCards** - one slot's memory card from its checkout to the last send: `session` is `g_mcs` of each
PC, `finishing` the sessions that `McFinishThread` still works on, a card the sequence of saves on it.

## The runs

| cfg | module | question | result |
|---|---|---|---|
| `KMessage_any` | MCKMessage | under any loss, repetition and reordering: types and buffer bound, the contiguity `in_cache`'s comment states, each message in its own slot, `OrderedChannel`, and the queue drains | holds, 144k states |
| `KGame_drops` | MCKGame | lockstep, `WaitsForSent`, `GvQueueFits`, `CachesAgree` while either player may drop, stop or time out at any moment | holds, 741k states |
| `KGame_live` | MCKGame | every MPV call returns | holds, 167k states |
| `KNetSync_nudge` | KNetSync | a lost GAMRSRDY is repeated, as `kaillera_core.cpp:743-747` says | **violated** |
| `Play` | MCPlay | two players in lockstep, and neither runs further ahead than the delay allows (`P2PGame`); the loop follows the requests (`Frontend`); the connection survives the step (`Teardown`); the server's file of a stream is the host's, the states are exact (`LiveStream`) | holds, 1.6M states |
| `Lobby` | MCLobby | a room whose joins, leaves, kicks and starts cross (`Room`); the same cards and multitap on every PC, no card without a confirmed account, no check that never ends (`RoomSetup`); a recorded game continued by all from one state, even if somebody's copy of it was cut (`RetryConnect`) | holds, 1.6M states |
| `Client` | MCClient | two players start together with the same cards (`P2PLobby`); what a spectator plays is exact (`WatchLive`); a failed or killed update (`Updater`) | holds, 1.3M states |
| `Records` | MCRecords | every field arrives, unless the message outgrew its limit (`Instruction`); at most `default_ipm - 1` bundles lost in a row and reordering shorter than the hole timer: no message is ever skipped (`KMessage`); a recording plays as it was played, up to where the file ends (`Recording`); a save that was finished reaches WE Camp (`MatchCards`); a login ends for a reason (`Account`) | holds, 2.0M states |
| `Waits` | MCWaits | netsync ends, a message stays unread only if a datagram was lost, the start is not missed (`KNetSync`); two players never wait for each other for ever, and a game one leaves ends for both (`P2PGame`); every search by code ends, and leaves no stale address (`Traversal`) | holds, 125k states |
| `Instruction_longest` | Instruction | the longest chat line fits, as `p2p_instruction.cpp:67` says | **violated** |
| `RetryConnect_mailbox` | MCRetryConnect | every control is polled once, as `kaillera_retryconnect.h:69-70` says | **violated** |
| `Updater_kill` | MCUpdater | every file that is installed was checked, as `n02_update.cpp:411` says | **violated** |

`Lobby`, `Play`, `Client`, `Records` and `Waits` are unions: the modules share no variable, a behaviour chooses one of them at
its start (`part`) and the others stand still in their initial states, so the states of a
run are the sum of the parts' and not their product.

**The findings.** (1) `kaillera_GameStartSequence` computes `tit = 5000 + ti` and resends only `if (tit
<= ti)`. Neither changes in the loop, so nothing is ever resent in its 120 seconds; a comment
elsewhere in the file describes this loop as one that repeats a lost GAMRSRDY every 5 seconds. (A
lost GAMRSRDY can still reach the server in the bundle of a later message.)
(2) The frontend is promised every remote control exactly once, but the mailbox has one place: `PAUSE`
and `RESUME` read in one `kaillera_step` leave only the second, and a rewind followed at
once by going live leaves the guest at another frame than the host.
(3) `SwapInPendingUpdate` installs any `kailleraclient.dll.new` unchecked, and a download writes to
that very name: a process killed meanwhile leaves a truncated DLL for the next start. While no
process is killed, `AllOrNothing` shows that no such file is left behind.
(4) `p2p_message::send` puts type byte and body, up to 256 bytes, into an `unsigned char` length. A chat line
of 250 characters, which the window accepts, gives 256, that is 0, and the receiver makes an instruction of
type 0, a LOGN_REQ, of it.

**What the models showed about the design, without contradicting a document.**
P2P's lockstep holds as long as fewer than `default_ipm` first datagrams in a row are lost or
overtaken. Once that many are, the receiver takes an empty message, drops it, and the two
games are shifted against each other without either noticing (`P2PGameProofs` shows that nothing else
shifts them): retransmissions do not help,
because a message the receiver has passed is not looked at again. Server mode has the same
shape with `KMSG_HOLE_SKIP_MS`: `NoMessageSkipped` holds under the losses the redundancy
covers, and a skipped GAMEDATA shifts the frames. `gv_queue` is never checked against its 256
places; `GvQueueFits` shows that it holds at most `dframeno` frames, so it fits as long as the
server's delay stays below that.
`OnlyKickedAreTold` and `WindowFollowsServer` hold for users who wait for the answer to one request before the
next (`Patient`); leaving and entering rooms faster than the server answers clears the flag that tells
a leave from a kick. They except who never created a room in this connection (`Deceived`): its `user_id` is what an
earlier connection left, or 0. Kicked, it is not told and goes on showing the room; and if the id is now another
player's, that one's leaving tells it "You have been kicked" and takes its window out of a room it is still in. TLC shows each of the two
when its exception is left out. A kick is one of the present connection, as `kicked` is. With the run's two users the second
exception of `WindowFollowsServer` bites only until the rest is read, since nobody else is left in the room; the theorem has any number. A rewind to before the oldest snapshot is clamped and the spectator's inputs
shift (`FrameExact` excepts it). A batch the server refuses leaves the offsets ahead of the file for good
(`StreamIsExact` excepts it), and what is still queued beyond one batch when a stream ends is never sent.
`NoStaleAddress` needs `Prompt`: no datagram takes a whole beat of the timers. Without it a second HOST that
arrives when the joiner is already connected, but before its timer noticed, moves its socket to the
other address (`p2p_ui.cpp:1524` does not ask `p2p_is_connected`), and the two are deaf to each other.
`NobodyLeftBehind` excepts a connection in which a game was dropped between its start and its first frame (`early`), in
which TLC finds somebody left behind. `p2p_drop_game` sets the status to 1 (`p2p_core.cpp:284`) under a loop that waits for
the other. In the wait for LOAD this changes nothing for the other, who measures the delay and plays alone with one that
has gone. From the pings on, the tests at 958-962 skip the clocks: the host sends only its START, and the
client waits for the CHECK and TTIME that do not come, or, dropping itself, lets the host wait for its ADJUST. And with the
status at 1, the recursion at the end of the start begins once more with LOAD, which the other has sent already. In a
game the same happens if the emulator calls `modify_play_values` between the drop's status and the end of
`KSSDFA.state` (`Drop`, the last disjunct). No wait has a time-out, so the emulator hangs.

`SameCards` excepts a Ready that was taken back, for the withdrawal may cross with the start, and `hasty`: the end of the ISO's check sets the Ready
without asking `p2p_PeerCheckPending` (`p2p_ui.cpp:1163`). TLC's trace has five acts: the account's check times out, so the
Ready waits for the ISO's; the ticket comes after all and begins the account's check anew; the ISO's ends and the game
starts; what the site says of the ticket comes too late. The property also excepts two behaviours of at least
seven acts, which TLC showed. A host who closes its window after pressing Ready and opens it again at once starts alone,
on the LOAD of the client that has not read the EXIT yet: `case LOAD` (`p2p_core.cpp:751`) does not ask `CONNECTED`
(a new `p2p_message` takes the client's datagram as long as its serials are below 14). And a verdict of the site carries the nick
and not the room (`p2p_ui.cpp:1213`, "the peer left (or another one came) meanwhile"), so that the one on a player who left and
came back under its name ends the new check; should the site have refused the second ticket, the host
counts on an account that the client has just forgotten. In 30fps mode the halved delay is long enough only if the server
announces a throughput of at least 1 (or `conset` is at most 2): `KGameAssumption` states it.

### Bounds, and why they are enough

* *KMessage*: the constants of the code are scaled down in proportion: serial space 20 (24) for
  65536, jump 4 (5) for 10, window 5 for 16, redundancy 2 (3) for 3. The order relations that matter
  are kept: `ResyncGap <= CacheSize < 2 * (ResyncGap - 1)` (so a window can overflow) and
  `CacheSize` far below half the serial space. `First` is just below the wrap, so the 8 (6)
  messages of a behaviour cross it. `MaxLag` and `MaxAhead` keep what the network still
  delivers within half the serial space: in the code 32768 messages, minutes of play. The proofs
  need no other bound.
* *KGame*: two players, one with one frame in a packet and one with two, in 30fps mode, so that the
  server cuts the frames differently and both delay formulas occur; a cache of 2 entries so that it
  overflows; 4 (3) calls so that the delay passes and frames repeat (GAMCDATA). One input
  for the second player and two for the first suffice to tell frames apart and to repeat some.
* *KNetSync*: four messages, a datagram carrying two; `in_cache` holds 3, and a datagram 4 ahead starts it anew
  (the code: 3, 16 and 10), so that holes, a full `in_cache` and the new start occur; a retry interval of 2 and a
  time-out of 5 waits. `KNetSync_nudge` has three messages and the code's sizes.
* *P2PGame*: a serial space of 10 with gaps up to 4, starting two before the wrap; delays of 2 and
  of 1; at most 4 (3) calls, 3 datagrams on the way. No datagram is overtaken by more than `MaxLag`
  messages, all those of the run; the proofs need `MaxLag + BundleLimit <= SerialMod`: in the code, 241
  messages. `MaxLossRun = default_ipm - 1`.
* *Room*: two users, two user ids, two game ids, 7 requests and one message given up: enough for a second room of the
  same two after a kick or a closing, for any two requests to cross, and for two connections to swap their ids. *RoomSetup*: three
  players, one of them logged in under another name; two events (a coming, a going, a changed choice)
  suffice for a player who leaves and returns while its ticket is being looked at.
* *RetryConnect*: a recording of two frames, three of the host's controls, one transfer that fails or
  is cut (two, and four controls, were also tried); two guests, who are alike, so that one may refuse what the other took.
* *Frontend*: three requests. *Teardown*: three connections, so that a deleted one is
  followed by two others.
* *P2PLobby*: two pings and two adjustments instead of four each, five acts of the two players;
  both logged in or neither, the host's last choice the ISO's card and the client's its own. Alone and with
  seven acts both invariants hold too (35 million states).
* *LiveStream*: a queue of two records, one record to a batch, four records, one session, one
  request for a state, one refused batch: a full queue, an unconfirmed batch and a state occur
  together. A session begins anew in everything but the count of requests; alone and with two sessions
  `StreamIsExact` holds too (633k states), and the theorem has any number. *WatchLive*: a file of four frames and two chat lines, four units of it retained (one frame with a line,
  `RecordsFit`), two snapshots, two rewinds or jumps; chunks end anywhere.
* *Traversal*: one joiner and the host, two windows opened in all (the host may come twice), two codes (a repeated REG may get a new one); the
  deadlines are 2 and 4 beats, in the code's order (JOINs, REGs and KEEPs repeat before an attempt ends); each way
  through the routers open or closed; LOGN_RPOS in two bundles for three. A third window or a second joiner grows the
  run beyond its time.
* *Account*: two windows, one account with two tokens, three requests, one act of the user on the site: an answer to the
  first token meets the second in either window. Two accounts and four requests (6M states) hold as well.
* *Instruction*: real sizes; three fields, strings of 0, 3 and 250 characters read into 2 and 251 bytes.
  *Recording*: frames of 8 and 10 bytes, around the reader's margin, two frames and two lines, one
  seek, up to 15 bytes cut off. *MatchCards*: an owner and a guest, two matches, two saves, one failure of
  any kind, versions known: 2 for 32.
* *Updater*: three files, three releases of which the second does not change all files, two killed
  processes and three refused calls in one behaviour: two let a failed undoing of a DLL that is staged go unnoticed.

`CHECK_DEADLOCK FALSE` everywhere: the behaviours end when the bounded calls are made or
the game is over. That nobody waits for ever is stated by the liveness properties instead.

### Fairness

* *KMessage*: the callers poll (`while (has_data()) receive_instruction()` in `kaillera_step` and in
  MPV) and the clock advances: weak fairness of `HasData`, of the polling and of the
  hole timer. None for the network.
* *KGame*: weak fairness of the emulator thread, of the stepping thread and of the server; an
  emulator that was told -1 stops. Nobody has to drop, to time out or to type.
* *KNetSync*: the loop goes round. Nothing is assumed about the network or the server.
* *P2PGame*: both threads run, and of the datagrams sent again and again some arrive (strong fairness
  of receiving something new). A call whose peer has left reaches its 320th
  retransmission.
* *Traversal*: the windows' timers beat once a second. Their actions wait for the network to be empty
  (`Prompt`), which datagrams in flight switch off again and again: strong fairness. A datagram is read or lost.

## What is proved

TLAPS checks these for every value of the constants, under the modules' named assumptions.

| theorem | statement |
|---|---|
| `KMessageProofs!SpecTypeOK` | types, and `in_cache` never outgrows its 16 slots |
| `KMessageProofs!SpecContiguousRun` | `in_cache` is a contiguous run of serials ending at `last_cached_instruction` |
| `KMessageProofs!SpecWindowIsNext` | each message is in its own slot, past everything delivered |
| `KMessageProofs!SpecChannel` | `KMessage` implements `OrderedChannel` |
| `KMessageProofs!SpecNoMessageSkipped` | while the losses stay within the redundancy, no message is skipped |
| `LoopProofs!SpecBacklog` | no more messages unread than datagrams still to come or lost, as long as the bundles make up for what is lost and late |
| `LoopProofs!SpecReadyIsRead` | a player who loses nothing does not miss the start, in whatever order the bundles make up for |
| `LoopProofs!SpecNoStaleAddress` | two who are connected by code write to each other's present address |
| `LoopProofs!SpecLoopFollowsRequests` | the loop over `KSSDFA` comes to what the last request asks for |
| `LoopProofs!SpecReadyAfterCheck` | without a server: a host that is ready with somebody connected has ended the check of that one's account, unless the ISO's check has set the Ready |
| `KGameProofs!SpecTypeOK` | types of the clients, the server and the messages between them |
| `KGameProofs!SpecWaitsForSent` | who waits for a frame has sent its own input of that frame |
| `KGameProofs!SpecGvQueueFits` | `gv_queue` never holds more frames than the delay |
| `KGameProofs!SpecCachesAgree` | a cache index means the same input at both ends |
| `KGameProofs!SpecLockstep` | `KGame` implements `Lockstep` |
| `P2PGameProofs!SpecTypeOK` | types |
| `P2PGameProofs!SpecLeadBounded` | the one ahead is ahead by the delay and one call at most |
| `P2PGameProofs!SpecLockstep` | `P2PGame` implements `Lockstep`, over datagrams that are lost, repeated and overtaken |
| `RoomProofs!SpecWindowFollowsServer` | who has read everything shows the room if and only if the server has it in one, but for whom its `user_id` deceived |
| `RoomProofs!SpecPlaysWithTheRoom` | who has read everything and is in a game is a player of its room's game, but for whom its `user_id` deceived |
| `RoomProofs!SpecLoginNoticed` | a login is noticed although one of the two messages that tell of it was given up |
| `RoomProofs!SpecOnlyKickedAreTold` | only who was kicked is told so, but for whom a stale `user_id` misled |
| `RoomProofs!SpecRoomInv` | the inductive invariant of these four |
| `LobbyProofs!SpecChecksEnd` | an account's check under way has a worker that will end it |
| `LobbyProofs!SpecCardsNeedAccount` | the slots of a game only have cards of confirmed accounts |
| `LobbyProofs!SpecQuietRoomAgrees` | a settled room shows the same players, slots and multitap on every PC |
| `LobbyProofs!SpecNobodyReplaysAlone` | nobody replays a recording that another player could not get |
| `LobbyProofs!SpecLiveFromOneState` | who has gone live has played what the host has |
| `LiveStreamProofs!SpecStreamIsExact` | the server's file is the session, and a state's offset is exact |
| `LiveStreamProofs!SpecFrameExact` | a spectator's emulator gets each frame's input in its turn, and the stream ends with its last frame |
| `ClientProofs!SpecStepKeepsConnection` | the step never uses a deleted connection |
| `ClientProofs!SpecAllOrNothing` | a failed update leaves what was installed, a reported one is one release |
| `ClientProofs!SpecNoDowngrade` | no step of an update puts an older release in place |
| `ClientProofs!SpecLoginEndsForAReason` | a login is forgotten only if it was refused, ended or loaded anew, or, in `n02.ini`, written while another window was clearing a refused one |
| `ClientProofs!SpecSavesReachWECamp` | a match's last card reaches WE Camp, unless its version there was unknown to the PC |

*KMessage.* `ContiguousRun` alone is not inductive: it says nothing about the messages on the wire.
`IInv` adds which message numbers can be in `out_cache` and in a bundle (consecutive ones, the newest
first), that what is on the wire is within `MaxLag` of `sent`, and that the window is a stretch of
the sender's numbering (`Window`). The first part of the module shows that serial arithmetic is
arithmetic on message numbers while these are less than half the serial space apart; the
second follows a datagram through `Resync`, `Extend`, `FillSlots`, `SkipStaleHoles` and
`HandOver`, one lemma for each; the third has one lemma for each action. It
uses `KMessageAssumption`: `ResyncGap <= CacheSize < HalfRange` and the bounds on staleness.
`NoMessageSkipped` needs more, since `check_recv` skips whatever the hole timer gives up. `NoSkipInv` says that the window
begins right after what was delivered, that a hole in it has been passed by `Redundancy` messages, that is by every
bundle that could have filled it (`ExactWindow`), and that of the `MaxLossRun + 1` first bundles that carry a missing
message those that were sent are on their way or lost, and not all lost (`StillComing`). A hole that is past would
be lost with all of them, so there is none, and the timer (`TimerRuns`) only waits for bundles that are overtaken.
The hypotheses are `LossesCovered`: runs of losses are shorter than the redundancy, which is less than the buffer and at most
what is repeated and fits a datagram; the sender is less than `ResyncGap` ahead; the timer outlasts reordering. The
code's 3, 16, 5 and 10 satisfy them, and so does `Records.cfg`.

*KNetSync.* `Backlog` counts what is outstanding, but reading a datagram that is overtaken by a newer one
takes one from the count without adding a message. The inductive invariant counts only the outstanding
datagrams that carry nothing new (`Unread`, `Owed`), and adds that everything past
`got` is outstanding, that a datagram is in one place, and that `in_cache` is the end of what
was received, without a hole as long as nothing `strayed`, so that what was handed over is known (`NoReadyYet`).

*KGame.* None of the properties can be told from a client's state: each compares what it holds with what
somebody sent some time ago. The invariant therefore follows the two channels of a player. Messages on
their way to the server hold the frames between what the server has taken and what was typed (`Upwards`);
messages on their way back carry, one after the other, the client's cache and its place in the game
to the server's (`OnTheWay`). Each is a function over the positions of a channel, which loses its first value
when a message is taken and gains a last one when one is sent, so that a step needs only the value at one end.
From it: what is given, queued and on the way is a prefix of the one game the server cut (`Lockstep`); the
caches agree; and the number of frames a client is behind is what `dframeno` says, of which `WaitsForSent` and
`GvQueueFits` are arithmetic. It uses `KGameAssumption`: in 30fps mode a throughput of at least 1.

*P2PGame.* A serial has eight bits, so the first part shows that within `MaxLag` of the newest it tells
messages apart as their numbers do. The invariant counts: `Got` is what a player has of the other, given to
the emulator or not, and it is exactly the other's first frames, because at most `MaxLossRun <
default_ipm` first datagrams in a row are missing and the next bundle reaches back to the last one read
(`NetInv`). A call waits for the frame of `Throughput + 1` calls before, which bounds the lead and with it the
staleness of everything on the way. It uses `P2PGameAssumption`, which asks for `2 * Throughput + 3 < SerialMod`:
in the code, a delay of at most 126 frames.

*Room.* The properties speak of a user that has read everything; the invariant (`RInv`) says what the inbox of one that
has not must hold, so that reading it leads there. It orders the few messages that concern the user itself: GAMEMAKE,
GAMRSLST and its own GAMRJOIN stand together and take it into a room (`EntryOrder`), its own GAMRLEAV and the room's
GAMESHUT stand behind and take it out (`AfterEntry`, `OrderInv`). Who is in a room shows it or is on the way
(`InRoomInv`); who is out of one it still shows has one of the two to come, unless it was kicked and does not know its own
id (`OutInv`); a GAMRLEAV of its own is in the inbox only if it asked for it and waits for it, or was kicked (`KickInv`).
What was sent before the answer to its leaving is `Behind` it and does nothing. A room that was closed is empty and its
id is never used again (`ShutInv`, `KnownInv`). The theorems assume `Patient`, as the run does: who leaves and enters
faster than the server answers clears the flag that tells a leave from a kick. `SpecLoginNoticed` assumes `MaxSkips <= 1` too: with both messages lost nothing is
left to notice. Ids need an argument of their own (`IdInv`): the server gives no two connections the same id at a time, so
in the inbox of a user who is connected a message has its id if and only if it is about that user, whatever became of the others
since; a `user_id` learned in this connection is therefore never another's. Of a user whom a stale one misled the invariant only says what
concerns login and ids (`Clear`), of all others also what they will show (`ViewInv`).

*RoomSetup.* `CardsNeedAccount` speaks of a game that starts, but a slot may be filled from a list of confirmed accounts
that was on its way when its owner left. The invariant (`Vouched`) says of every list, sent or read, that it only
names nicks the site vouched for. `ChecksEnd` is inductive.
`QuietRoomAgrees` only speaks of rooms in which everything has been read; the invariant (`QInv`) says what a player *will*
show once it has read the lines before it (`Leads` plays them through its window; `Shown`): the members in the server's order;
each player's announced choice, unless that player has still to read of its own coming or of the shower's and will repeat it then; the host's accounts, unless
the host has still to read of this player's own coming; and the host's multitap, unless the host has still to read of any
coming, or its box will go off when it reads of those who left. So a step has to show two things: that the
lines it adds turn the windows into what they should show now (`Sends`), and that a player who reads of a coming
adds all it owes (`ReadJoinAgrees`). A player who has not read the list of the room has that list before it, and then its
own coming (`Newcomer`). The host's box never stays on with fewer than three players in its list (`HostTables`).

*RetryConnect.* `LiveFromOneState` needs four invariants, each on top of those before it. `Orderly`: what may be on its
way to a player, in which order; thus a NAK is read before everybody is ready (`Refusals`, and `NobodyReplaysAlone`).
`Anchored`: a reader is at the frame its emulator plays next, also in the state on the server, unless a transfer was
cut. `Together`: before every player there is still the host's last stop, or it has been there. `Joined` then
compares the inputs of those who are live.

*LiveStream.* File, unconfirmed batch and queue, read in this order, are what was pushed; every step but a loss only
moves a border. That a post which is repeated, or answered late, moves nothing twice is the sequence number's doing
(`BatchInv`: only the unconfirmed batch is new to the server).

*WatchLive.* `FrameExact` compares the emulator with the unit it is given. The invariant (`WatchInv`) reads everything as a
place in the file: the buffer and what was fetched are one stretch of it, up to the local offset (`BufferInv`); the reader
is at a record's first byte or between its halves, and has counted the heads before its place (`ReaderInv`); so has every
snapshot, and the latest is at most `FrameGap` frames behind (`SnapshotInv`); every checkpoint of the frontend is of a frame
whose record is still buffered whole (`CheckpointInv`). The walk of a rewind then passes one record after the other, each
with one head or none, so that it cannot miss the frame (`WalkEnds`). Of what is left at the end of a stream at most half are
heads (`HalfHeads`), which gives the half margin. `RecordsFit` is assumed: what is streamed in `FrameGap` frames is
retained, in the code 600 frames and their lines in 16 MB. The proof attempt showed that it is needed, and TLC confirms it
(`Retain = 3` with `FrameGap = 2`): otherwise a refill may drop every snapshot, `WatchSeekToFrame` returns at once when
there is none (`player.cpp:1322`), and the emulator goes back without its stream.

*Traversal.* `NoStaleAddress` compares two windows that are set by different datagrams. The invariant (`SearchInv`) says of
the wire what makes them agree: a joiner has at most one question or answer of the server under way, and none once it
knows an address (`AskedOnce`), so no second HOST moves its socket; as long as it looks for the host it has no address to
write to (`BlindSearch`); a LOGN_RPOS for the host, and the address of a host who is connected, carry the way the joiner
confirmed to, which it keeps (`Agreement`). The theorem assumes `Prompt`, as the run does. The proof attempt corrected the
model: a window had kept its joiner's name when it was opened again, and then a LOGN_RPOS for the old window connects the
new one; the code binds a socket of its own to each window (`PORT` is 0), so that such a datagram reaches nobody. A
window that opens again is therefore another of `Joiners`.

*Frontend.* The property speaks of moments of rest; the invariant (`FrontInv`) follows a request from the first half of its
assignments to the loop. A request's queue is one of a few shapes (`IsQueue`). While its input is not read, the word holds
the input the request wrote (`UnreadInput`); once it is, the state the loop has read, is about to store or has stored
(`CourseIn`) is one the request asks for (`TakenInput`). A thread that loaded the word before may store the older field
back: `missed` records it, and the invariant promises nothing about that field until the next request writes it. The
end of the window's thread needs its own clause (`Ends`), since it writes no input.

*P2PLobby.* `ReadyAfterCheck` is the half of `SameCards` that needs no order of messages: the host is ready only with
its box checked, never while a check goes on, and a check has begun before anybody is connected (`ReadyWaits`). It holds in
every behaviour, those that `SameCards` excepts too, but for the one thing in the code that breaks it: `IsoCheckDone`
sets the Ready without a look at the account's check (`hasty`).

*Teardown.* The argument of two flags: the step raises its own before it reads the pointer again, the shutdown
clears the pointer before it looks at the flag; so what the step holds is what the pointer points to, or what the
shutdown waits to delete (`UseInv`).

*Updater.* Neither property is inductive: at the moment a package is reported, that it is whole depends on every loop
before. `UInv` follows the process: what is downloaded is complete before the first file is moved (`LoadInv`); each
step of the swap has put aside what was there, and a file is in its place if and only if its step is done (`SwapInv`);
what is not in the download is already the release's (`PkgInv`); nothing half-written is left unless a process was
killed (`WholeInv`). For the downgrade, nothing staged or put aside is older than what runs (`Newer`), and no file is
newer than the site's release or the one that was installed first, whichever is newer (`Dated`). It uses
`UpdaterAssumption`: releases are listed oldest first, a file of a newer release is not an older build, and the
manifest names no file twice. The proof attempt corrected the property: if both renames of a staged DLL and of its way
back are refused, the check goes on without a DLL in its place, does not offer it when its version is the site's, and
reports a package without it. `AllOrNothing` therefore speaks of behaviours in which no undoing was refused.

*Account.* The site gives a token out once, so that one it refused stays refused, and a window only forgets the very
token its request was refused for (`ThreadOK`). `ForgetRefusedLogin` reads `n02.ini` and clears it in two calls
(`n02_wecamp.cpp:214-217`): a login that the other window writes in between is lost, although the comment at
204 says "not another window's newer login". That race is the one exception of
`LoginEndsForAReason` (`ClearsOvertaken`); without it TLC finds the property violated.

*MatchCards.* A PC's `known` is the first version it saw and the latest, whatever `McKnownAdd` threw away (`Remembers`), so
what a send names is what `SavesReachWECamp` allows it to name. The invariant (`CardsInv`) orders a session's versions by
prefix: what it knows, what it settled, what it waits for and the core's file; from it a new save is never a known
version, and a card that WE Camp takes always extends the one it replaces. What was sent is then part of every later card.

## Limits

*Only model-checked* so far: `SameCards` and `NobodyLeftBehind` (`P2PLobby`), `FieldsArrive` (`Instruction`) and `PlaybackFaithful` (`Recording`). `SameCards` and `NobodyLeftBehind` are about what is in two queues at each step of the start, over closed and reopened windows; no inductive invariant for them is known yet. Out of the proof system's reach: all liveness (`QueueDrains`, `CallsReturn`, `WaitEnds`,
`NobodyWaitsForever`, `SearchEnds`), and what `Instruction` and `Recording` compute by recursion over data.

*Abstracted*: the content of messages and frames; the size of datagrams (`FitCounts` is how many messages
fit); memory management; statistics and debug output. In KMessage the mode that peeks without
removing has no caller and is left out. `last_processed_instruction` is written and never read. In KGame a
message is never skipped, GAMESHUT and kicks during a game are left to the room's
module (where the game itself is one bit), and a GAMCDATA index outside the cache reads an arbitrary frame. In P2PGame in-game chat
is left out, and datagrams to a player back in the lobby disappear at once (`p2p_step`
reads and ignores them).

*Assumed.* `Teardown` and `Frontend` are sequentially consistent: a processor that lets a later read overtake
an earlier store could still break the handshake of `kaillera_step_active`. In `P2PLobby` the emulator, which is not in the repository, runs the game inside
`infos.gameCallback`, so that `p2p_step` does not read the socket while a call of `modify_play_values` waits;
in `P2PGame` a drop comes between calls or while one waits. `P2PLobby` loses nothing
between Ready and the first frame: the loops that wait for LOAD, PING, TSYNC, TTIME and START have no
time-out and nothing is sent again in them, so that any one loss there hangs the emulator for good.
The threads that check a ticket are always created (`kaillera_ui.cpp:1146` only deletes its job if not, and the check
stays pending). Memory suffices (`n02_watch.cpp:284` says that a chunk that could not be kept
is requested again; line 315 advances the offset all the same). The site answers eventually or the
client's time-out fires.

*Seen while reading, and left out*: a player's PC works the slots out when GAMEBEGN reaches it, so a host who
starts within the delay of a joiner's lines may leave it with other slots (`QuietRoomAgrees` speaks of
settled rooms). A killed updater between its two renames leaves the DLL only under `.old`. The Ready box stays
checked when the peer left. Closing the P2P window while waiting for the peer to load deletes the
connection under the emulator's thread. `g_active` of retry-connect is not reset when the game
ends while it is replayed. `kaillera_retryconnect.h` has every player read "byte-identical bytes" and
`n02_replays.h` has a download "return true on success": `n02_replays.cpp:216` takes any end of the connection for the end of
the file. `LiveFromOneState` shows that the states put this right before the game goes live; a state that is cut
(`:358`) moves the reader all the same, and the player's inputs and emulator stay apart, for which
`ReaderFollowsEmulator` and `LiveFromOneState` make an exception.

Codes: WHATISMYIP is not asked again, so a host by IP whose question is lost reads "checking" for good (`SearchEnds`
speaks of the wait for a code). A REGOK that comes while a peer is connected lists the game again, with a code whose
session nobody closes. A host whose LOGN_RPOS is lost in every bundle stays with the joiner's address and hears
nobody else; the joiner's own LOGN_RPOS lost in every bundle leaves a link only one side believes in.
Account: a window's logout clears `n02.ini` even if another window's newer login is there; the answer to an older account's `whoami` is applied to
whoever is logged in by then; `DISCORD_VOICE_AUTO` holds one account, so two take the choice from each other;
`VoiceJoinThread` asks on with the login of the moment.
Recording: `krec_reader` copies nothing with 10 bytes or fewer to go, while `PlayBackBufferC`, whose semantics
`krec_reader.h:178` calls identical, gave that margin up (`player.cpp:66`); MPV's -1 is recorded as a frame of 65535 bytes, which the reader skips; a chat line is not tested
against the 500 bytes of `RecordingBuffer` (`kailleraclient.cpp:127`, 452-467), and what more lines than fit between two frames overwrite is
not modelled: `RecordLine` has them fit with the next frame (`Fits`). Nicks and texts are shorter than the reader's arrays, where `load_str`
cuts and writes its NUL one place further (`krec_reader.h:187-192`); a recording played from disk never tells who was dropped.
MatchCards: the first PC that ends, or whose download fails, releases the lock of the game's card for all
(`kailleraclient.cpp:1432`, `:1294`).

*Not modelled*: see `components` in `PROJECT.json`. Dialog layout, the server lists, the HTTP texts and
the file formats are sequential input and output; their effect on the modelled parts is a free
choice of an action.

## The plan

Done: the message layers and the instructions, both kinds of game, and what surrounds them: room, frontend, P2P lobby,
the search by code, recordings, streams, memory cards, accounts, updates. Proved: the two message layers, both
games, the room, retry-connect, the cards, multitap and accounts' checks of a room, the Ready of a P2P host, both ends of a stream, the shutdown, the login, the updater, the search
by code, the loop over `KSSDFA` and the memory cards. Left, in this order:

1. **P2PLobby** - `SameCards` and `NobodyLeftBehind`: what is in the two queues at each step of the start.
