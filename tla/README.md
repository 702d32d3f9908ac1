# A verification development for LiFi-Auth

LiFi-Auth authenticates a LiFi light link with session keys of the Secure Swarm
Toolkit (SST). A host with a photodiode (the receiver) fetches session keys from the
SST Auth server and provisions a Raspberry Pi Pico (the sender) with them over a
UART. The Pico sends encrypted messages by light; the receiver decrypts them, runs
the SST handshake with the Pico, and reports to a dashboard.

This directory holds TLA+ modules that model the program's logic, TLC
configurations that check them on small instances, and proofs that TLAPS checks
for every value of the constants. `PROJECT.json` lists the runs, the lines of
source each definition stands for (`map`), a faulty variant of the code for each
property (`mutants`), the hazards and the findings. Source paths are relative to
the root of the repository.

    tlc -config PicoKeyStore.cfg MCPicoKeyStore.tla      # one run
    tlapm PicoKeyStoreProofs.tla                         # one proof module

## 1. The system

    Auth (SST)  <--TCP-->  receiver/src/dash_receiver.c  <--HTTP-->  dashboard/app.py
                              |  main loop                              |
                              |  status thread                          |  USB serial
                              |  reporter thread                        v
                              |  control server thread       host/pico_provisioner.c
                              |                                         |
                     UART: KEY, HS1, HS3                                |
                              v                                         v
                     sender/src/lifi_session_sender.c  (Pico, one loop, console)
                              |
                     light: KEY_ID, HS2, ENC
                              v
                     receiver_pico/src/main.c  (photodiode bridge)  --> receiver

The work of `dash_receiver.c` can also be split over two programs of one Pi 4 that
share its UART: `keys_receiver.c` (key manager) and `ask_receiver.c` (asker).

| Component | State it keeps | Operations | What is hard | What makes it correct |
|---|---|---|---|---|
| Sender key store (`src/pico_handler.c`, `src/cmd_handler.c`, boot of the sender) | two flash slots, an index page, RAM copies of key, id and MAC key, `keyram`, `current_slot` | clear, use, switch, new key, key by hand, KEY frame, reboot, boot | power loss between erase and program; RAM, index and slots told apart | id and key always belong together; RAM follows flash; a boot finds a key if there is one |
| Nonce generator (`pico_nonce_*`) | boot salt, 32-bit counter | init, generate, on key change | wrap, key changes back and forth, reboot | no nonce used twice under a key |
| Receiver main loop (`dash_receiver.c`, `main`) | `s_key`, key list and index, receiver state, deadline, own nonce, `pending_key` | key presses 1, 2, n, f; frames KEY_ID, HS2, ENC; timeouts; start | keys replaced while answers are awaited; deadlines; commands in any state | the handshake authenticates; no zeroed key is installed; waits end |
| Sender main loop | `saved_pico_nonce`, LED, key | HS1, HS3, KEY, `send_id`, messages, reboot | nonces overwritten; frames lost; key changed in between | as above |
| Replay window (`replay_window.c`) | ring of 64 nonces, index | init, seen, add | wrap, zeroed slots | replays within the window are blocked, fresh frames are not |
| Status queue | ring of 32 messages, head, tail, count, mutex, condition | offer, wait, take, post | two threads; drops when full | order, no overwrite, no lost wake-up |
| Reporter and control server | reporter MAC key, its id, one-event mailbox, force-key and baud mailboxes | `/force_key`, `/set_baud`, `/status`, `/challenge`; signal, wait, post | three threads; requests overwritten before they are served | id and MAC key agree; each request acted on as a whole; the last event gets out |
| SST C library (external) | session key list, handshake messages | `get_session_key`, `get_session_key_by_ID`, handshake helpers | requests fail | taken from the calls |
| Frame hunting and field reads (seven programs) | preamble match, TYPE branch, bytes of the read under way | one byte at a time; timed reads; flush; debug tap | lost, misread and added bytes; overlapping preambles; a failed frame's effect on the next | an intact frame is handled; a bad one costs at most one more; reads end |
| Compression (heatshrink and its callers) | encoder buffer, scan position, bit buffer; decoder ring, cursors | sink, poll, finish; the loops of sender and receivers | full buffers, bytes not sunk, references across pieces | never a wrong byte; nothing the encoder took is lost; loops end |
| Key manager and asker (`keys_receiver.c`, `ask_receiver.c`) | `s_key` of each, the asker's list, state and nonce; the shared UART | keys 1, n, f and k; KEY_ID and HS2 frames; start | two programs write frames in pieces to one port; writes torn or refused | the Pico never mixes keys; the handshake authenticates; every read ends |
| Dashboard backend and provisioner (`app.py`, `pico_provisioner.c`) | key file, loaded id and MAC key, proof flag and its time, shown id of the Pi4 | provision, reload, challenge, frame and status reports, health monitor, push | a thread per request, no lock; the program killed; lost answers | dashboard and Pi4 agree on what was reported; proof decays; the shown id settles |
| Photodiode bridge, speed test receiver | matcher of text lines | pass through; count | overlapping preambles, a lost line end | as framing |
| Front end, speed test senders, raw monitor, flash tool, crypto and drivers | - | - | - | not modelled, see section 8 |

How they interact: the UART and the light channel are one-way, unacknowledged byte
streams; a frame that is cut, fails its CRC or is flushed with the receive buffer is
gone. The four threads of the receiver share memory under four mutexes
(`g_status_mutex`, `g_rep_mutex`, `g_force_key_mutex`, `g_baud_mutex`), with one read
outside them (`dashboard_http_post` signs with `g_rep_mac_key`). The dashboard's
handlers run each in a thread of its own and share the globals of `app.py` without a
lock. Nothing coordinates the writes of `keys_receiver.c` and `ask_receiver.c`.

## 2. Modules

    PicoNonce <- PicoKeyStore <- MCPicoKeyStore          (state machine, TLC)
                      ^--------- PicoKeyStoreProofs
    MutualAuth <- LiFiLink <- MCLiFiLink                 (LiFiLink implements MutualAuth)
        ^------- MutualAuthProofs <- LiFiLinkProofs -> LiFiLink
    MutualAuth <- KeysAndAsk                             (KeysAndAsk implements MutualAuth)
                 MutualAuthProofs <- KeysAndAskProofs -> KeysAndAsk
    DashThreads, ReplayWindow, StatusQueue <- DashReceiverProofs
    Framing      <- FramingProofs
    Compression  <- CompressionProofs
    Dashboard    <- DashboardProofs

The levels meet as follows. LiFiLink takes a frame as one message that arrives or is
lost; Framing shows what a stream of bytes does to frames, so that this is what is
left of it at the receiver (an intact frame is handled, a bad one may cost a second);
KeysAndAsk keeps the pieces of a frame apart where two programs write them. Compression
is what happens to the payload of an ENC frame. DashThreads is the Pi4 side and
Dashboard the other side of the control port.

A session key that Auth issued is one model value: it stands for its id, its cipher
key and its MAC key, and the model keeps these three in separate variables wherever
the code does. Encryption and MACs are symbolic: a check succeeds only with the key
the frame was made with. Operators commented as a bug that the code avoids (such as
`NonceInitWithoutSalt`) are faulty variants that `PROJECT.json` names as mutants; no
specification uses them.

### PicoNonce
`bootSalt` is `g_boot_salt`, kept as the ordinal of its random draw, so two draws
differ: a collision of 64 random bits is outside the model. `msgCounter` is the
`uint32_t` counter, of `CounterLimit` values (2^32 in the code). The code advances
the counter, then tests for 0, then reboots through the watchdog; the model makes
the reboot part of the same step (`CounterExhausted` in PicoKeyStore).

### PicoKeyStore
The firmware is one loop and a handler runs to its end, so no interleaving of
handlers is possible; but power can fail between any two flash operations. So a
handler is three kinds of step: the handler's own action decides its guard, its
queue of erase and program operations (`flashOps`) and its effect on RAM
(`outcome`); `FlashStep` does one flash operation; `Finish` applies the whole effect
on RAM: `session_key`, `keyram`, the id that `main` reads again after a command, the
MAC key for a KEY frame and the nonce. Some handlers change RAM before the last
flash write; nothing reads RAM in between and power loss erases it, so applying it
last loses no behaviour. `PowerLoss` is enabled everywhere. A torn erase or
program leaves a page that `validate_flash_block` refuses by its hash, which is what
`None` stands for, so each operation happens or does not.

- `Boot` loads slot B if it is valid, else slot A, and sets `current_slot` to A
  whatever it loaded. The MAC key is stored nowhere.
- `NewKey` and `NewKeyForced` take what `receive_new_key_with_timeout` can return. It
  accepts the two bytes AB CD, so a KEY frame with the 4-byte preamble is read five
  bytes early: this is the pair `GarbledPair`.
- `ManualKey` is `key <hex>`, which stores a fixed id. Zeros are taken, too
  (`src/cmd_handler.c:224`), and make a page that the loader finds valid: in slot B it
  hides the key of slot A from a boot, which then has the manual id and no key.
  `BootFindsValidSlot` counts such a page as a pair.
- `load_last_used_slot` and `store_session_key` are never called and are not modelled.

### MutualAuth and LiFiLink
`MutualAuth` says what the SST handshake promises without wires or keys: numbered
challenges, at most one open; nonces, at most one held; each side accepts only what
the other did before. `Agreement` states what follows: whatever the Pico accepts the
receiver accepted, whatever the receiver accepts the Pico answered, and no challenge
or nonce is accepted in two handshakes.

`LiFiLink` composes the receiver's main loop and the Pico's main loop with two
bounded FIFO wires. One handler is one action. Any frame may be lost (`Lose`),
either program may restart (`Restart`, `Reboot`), the console and the operator may
change keys at any time, waits may be abandoned, deadlines may pass at any time. Its
refinement of MutualAuth maps the open challenge to `entityNonce` in the state HS2
and the held nonce to `savedNonce`; `answered`, `rDone` and `pDone` are history.
The receiver's `keyList` and `pendingKey` follow the code: `RecvForce` frees the old
list first, `RecvAck` reads the id off the list as it is then and leaves the MAC
key. The Pico's console is reduced to what it does to the pair in RAM; its flash is
PicoKeyStore's subject. A start without Auth leaves no list and no key (`Restart`).
A key that the dashboard pushes is taken as it comes, id, cipher key and MAC key of any
keys (`Pushed`), and leaves the list alone; a key that Auth gives by id joins the list
(`AdoptPushed`, `ListWith`). A decryption under a wrong key may pass its padding check by
chance and then yields `Junk`.

### ReplayWindow
The ring and its one caller, the encrypted-frame handler. `added` is the history of
nonces that entered. `Receive` is an encrypted frame whose CRC holds: its nonce
enters before decryption and whether or not a key is there.

### StatusQueue
One action per critical section of `g_status_mutex`. A message is the number of its
offer, so that order and loss can be told; `backlog` and `delivered` are histories.
The wait on the condition variable may end unasked (`WakeUnasked`).

### DashThreads
The main loop against the reporter and control server threads. A critical section is one
action, except the one that installs a key into the reporter's copy: it is split
(`installing`), because `dashboard_http_post` reads the MAC key without the mutex
and may get the old key, the new one or a mixture (`Torn`). `/challenge` is two
actions, as its two critical sections are. `StatusRequest` leaves the state alone.
The body of `/force_key` names any id or none and brings any MAC key or none; the handler
does not compare them, so what a body pairs belongs together from then on (the history
`pushed`), and `IdNamesMac` asks for no more.
`verify_signed_request` is compiled but its
caller has disabled it; every request is accepted, as in the code.

### KeysAndAsk
The key manager and the asker are two processes; each writes a frame in as many steps
as it calls `write_all` (four for a KEY frame, two for HS1 and HS3), and between
them the other may write. A call puts its chunk on the UART, or fails and leaves
nothing or a piece (`Torn`; the port is non-blocking). The piece may end before, within
or after the preamble, within LEN or within a field. A KEY frame is abandoned at its
first failed part; the asker zeroes its challenge when HS1 fails, and ignores what
happens to HS3 (`AskerWrites`). Either process may be stopped half-way and started
again.

The Pico reads bytes, so the UART is kept in bytes: a chunk has its size, `Without` takes
bytes off the front and marks a chunk cut in two as no longer fresh. `Hunt` passes
over bytes outside of a frame. When the header broke off after its preamble (`lacking`),
whatever comes next is tried as the TYPE (`TryType`) or read as LEN (`ReadLen`); junk may
pass for either, the first bytes of a preamble may not. `ReadAside` and `LastRead` are the
timed reads, `ReadExpires` their deadline. A read that does not find its own part, whole,
at the head of the wire has read `Junk`. The sizes are the code's, among them 32 bytes of cipher
key that `keys_receiver.c` sends where the Pico reads 16. A `KEY` frame has no CRC
(`docs/PROTOCOL.md` says that every frame has one), so Junk is installed. The FIFO of
the Pico may overrun while the Pico does something else (`Overflow`).

The manager's list is left out: 'n' and 'f' give it any key. The asker's list is a set,
searched by the low 32 bits of an id as `get_session_key_by_ID_fixed` does (its
comment says that it "handles 64-bit IDs correctly"; a key whose low half agrees is
found in the wanted one's place, which the two keys of the run, 1 and 3 modulo 2, do).

### Framing
One program out of seven reads a line that brings one byte per step (`Arrive`) or
stays quiet until deadlines pass (`Quiet`). A byte arrives as sent, is lost, is misread
or noise comes before it; a frame may break off. Every program is described by its
table of branches: the lengths a TYPE accepts, the sizes of the reads that follow,
whether the reads go on after one timed out, whether a CRC or HMAC guards the frame, and
where the hunt goes on; and by how its matcher treats a byte that breaks a preamble
and a TYPE it does not know. `dash` takes up to 15 bytes after an unknown TYPE (the debug
tap), the sender flushes its FIFO after bad lengths, `flash`, `ask` and `og` stay in
the state that tries the next byte as a TYPE. `bridge` and `speed` read lines of
text after the preamble.

Histories: `whole` says that the frame on the line arrives as sent, `begun` whether its
first byte found the program outside of any read, `heir` that the frame before it was
intact too and had no false length before it, `delivered` that it was handled. `sure` and
`aligned` follow the ideal CRC.

### Compression
A step is one iteration of a poll loop, one call of sink or finish, or a decision of
`main`. The encoder's states are those of `heatshrink_encoder.c`; its bit buffer and output
are one sequence of bits, of which whole bytes count as output. `Chain` is the index: the
earlier positions with the same byte. The sender sinks once, polls while the output has
room, finishes and flushes, and sends the compressed bytes only if they are fewer
(`UseCompressed`). The decoder's ring, index, count and bit cursor are
those of `heatshrink_decoder.c`; `dash` feeds it in pieces until all is taken, `ask` once.

### Dashboard
A handler's step ends where another thread can make a difference: at a wait for network,
program or file, and between reads and writes of globals that belong together. The
handlers are provisioning (Auth issues a key, `pico_provisioner` truncates and writes the
key file, provisions the Pico or is killed by its timeout, the file is loaded, the key
pushed to the Pi4; the request may get lost, or its reply after the Pi4 queued it:
`ForceFails`), reload, challenge with its sync and retries, frame and status reports,
and the health monitor. `job` is what each thread does, `proof` the flag
`_mac_key_verified` with its id and age, `view` what the user sees, `devices` the Pico and
the Pi4 as seen from here: its mailbox, drained at some time, and the event its
reporter has yet to post. The Pi4 may go down and come back without its key.

## 3. Runs

| Run | Bounds | Shows |
|---|---|---|
| PicoKeyStore | 2 keys (symmetric), counter of 3 values, 4 salts | every interleaving of commands, KEY frames and power losses keeps id with key, RAM with flash, and nonces fresh |
| LiFiLink | 2 keys, pushed material of one key or with the id or the MAC key of another, 2 challenges, 2 nonces, 2 frames per wire, 4 events | the link implements MutualAuth, installs no zeroed key, and falls quiet |
| ReplayWindow | ring of 3, 5 nonces, 9 frames | replays closer than the ring is long are blocked, fresh nonces pass |
| StatusQueue | ring of 3, 8 offers | order, no overwrite, no lost wake-up, everything queued is posted |
| DashThreads | 2 keys, 2 rates and an insane one, 4 inputs | id and MAC key agree, requests are served as a whole, the last frame is reported |
| KeysAndAsk | 2 keys whose low halves agree, the code's sizes, pieces of 3 to 6 bytes, 2 challenges, 2 nonces, 2 frames of light, 2 events | the Pico never mixes two keys, the handshake implements MutualAuth, no challenge outlives its wait, everything ends |
| PicoTakesSentKey | the same | violated: finding 1 |
| Framing | fields of 1 to 5 bytes, 4 faults, all seven programs | intact frames are handled, a bad frame costs at most the next, reads end |
| Compression | window of 8, lookahead of 4, 2 letters, messages up to 9, output of 10 bytes | no wrong byte, whole messages up to the window, no cut stream is sent, loops end |
| WholeMessageArrives | output of 11 bytes, messages up to 10 | violated: finding 2 |
| Dashboard | 2 threads, 2 keys, 3 inputs, 2 polls of a sync, proof that survives no silent tick | dashboard and Pi4 agree on what an undisturbed operation reported, the proof decays, the shown id settles |
| VerifiedKeyWasProven | the same | violated: finding 3 |

Why the bounds are enough for these questions:

- PicoKeyStore. There are two slots, so two keys already put a different key in each
  and bring an earlier one back. Four salts allow three key changes or reboots after
  the first; a counter of three values wraps within one salt. The two bounds hold
  the history `sent` finite; `BoundReached` keeps the end of a behaviour from being
  reported as a deadlock. The same invariants are proved without bounds (section 5).
- LiFiLink. Two challenges and two nonces give a handshake abandoned and started
  again, with answers to the wrong one. Four events give a key change, a reboot, a
  key press and a command around them, in any order. A frame that finds the wire
  full waits for room, or is lost where the code's write may fail. Material with the
  cipher key alone of another key (a wrong decryption, which a key change gives as well)
  is left to the proof, which has any `Pushed`.
- ReplayWindow. Nine frames wrap a ring of three three times; five nonces are more
  than the ring holds and include zero. StatusQueue: eight offers on a ring of three
  wrap it twice and overflow it.
- DashThreads. Four inputs give, for one request or frame, two overwriting it and a
  key change between them.

- KeysAndAsk. The key manager's start sends a KEY frame without an event, so two events
  are a typed id and a failed write, a restart or a second id around it; the longest
  frames on the wire together are six chunks. Pieces of 3 to 6 bytes end a header of 7
  within the preamble of 4, after it, after TYPE and within LEN, and a field somewhere.
  The keys 1 and 3 with `IdLimit` 2 stand
  for ids with equal low halves.
- Framing. Fields are scaled down and keep the relations the code's sizes have, which
  `FramingAssumption` names: the tap and the byte before it are shorter than the shortest
  frame (16 < 17), the FIFO is shorter than a frame of the sender's. Four faults break
  two frames twice, or a preamble and the one in it. A read that loses as many bytes as a
  frame has (`Standing`) takes more; that case only the proof covers.
- Compression. Messages of 9 are longer than the window of 8 and than the lookahead
  several times, so positions leave the window; two letters give literals and references
  of every length. The output of 10 bytes is one more than the longest message, as in the
  code (`MaxLen < CompCap`); the stream of a message that does not compress is longer
  and fills it. The input buffers of 2 and 5 bytes cut references in two.
- Dashboard. Two threads are two overlapping operations; three inputs are, say, a
  provisioning, a frame and a reload. `AgreedAsReported` was also checked with four.

Deadlock is checked in PicoKeyStore, ReplayWindow (which can always block a replay),
StatusQueue (whose sleeping thread may wake), Framing and Dashboard. It is off in LiFiLink,
KeysAndAsk and DashThreads, where a state in which events or inputs are spent and all
loops are idle is a proper end, and in Compression, which ends with its message. The runs
of these modules and of Framing and Dashboard check what must happen before such an
end: `FallsQuiet`, `RequestsServed`,
`LastFrameReported`, `ProofDecays`, `ShownIdSettles`, `Completes`, `ReadsEnd`.

What TLC found on the way is worth keeping: `PairCoherence` holds although a clear leaves
the id of an erased key in RAM, because the key is zeroed with it;
and `ImplementsMutualAuth` holds although the receiver accepts a new handshake, a
key change or a forced update in the middle of one, because an answer is checked
against the newest challenge and the key of the moment. `PartsOfOneKey` needs its condition
`~overrun`: TLC finds a KEY frame of which the FIFO kept the id, followed by one whose
header it lost, and the Pico then has the id of the first with the cipher key of the
second. `SecondFrameArrives` leaves out flash, ask and og: a TYPE they do not know keeps
them in the state that tries any byte as a TYPE, and the run of the property with them fails.

## 4. Fairness

Only scheduling is assumed. LiFiLink: weak fairness of each program's loop over the
frames at hand, and of the deadline check (`Timeout`), since both loops poll for ever.
StatusQueue: the posting thread runs. DashThreads: a thread inside a critical section
leaves it, main drains its mailboxes (its `getch` does not wait, and there are
iterations without a key press because the user's typing ends), the reporter and the
answering server thread run. KeysAndAsk: the three loops run; nothing else of the two
processes is assumed, they may be stopped between any two writes. Framing: the line
either brings its next byte or is quiet long enough for deadlines (`WF(Arrive)`,
`WF(Quiet)`). Compression: the one program that has the message goes on (`WF(Next)`).
Dashboard: each handler's thread runs (its waits have timeouts), so does the monitor, and
time passes (`Tick`). Nothing is assumed of operators, of power, of the
network, of offers, or of frames arriving.

## 5. Proofs

All proofs are checked by TLAPS for every value of the constants that satisfies the
modules' assumptions: `NonceAssumption` (the counter and the salts are positive),
`KeyAssumption` (the special ids and the zeroed key are no session keys),
`WindowAssumption` and `QueueAssumption` (a ring has a slot, its filler is no
message, the zero nonce is a nonce), `LinkAssumption`, `ThreadsAssumption` and
`DashboardAssumption` (bounds are numbers, the special values are no keys, challenges or
rates), `SplitAssumption` (fields have a byte or more, the manager sends at least the bytes
of the cipher key, a header is longer than its preamble, a piece has a byte),
`CompressionAssumption`
(sizes are positive, the lookahead is smaller than the window, whose bits fit a byte, a
message is shorter than the two buffers, and no letter is 0) and `FramingAssumption`.
The last one has the relations of the code's sizes on which resynchronisation rests (a
comment there gives the sizes). Nothing else is assumed; in particular the line may lose,
misread or add any number of bytes.

- **PicoKeyStoreProofs.** `TypeCorrect`; the queue's operations keep the types of
  the sectors they address. `NoncesAreFresh` follows from `NoncesBehind`: every
  nonce used has a smaller salt, or the same salt and a smaller counter. Key changes
  and reboots draw a new salt; a message increases the counter; a wrap never returns.
  `StoreInvariant` proves `StoreInv`, which is needed because `PairCoherence` and the two
  others are not inductive: `FlashTogether` says it of every page in flash,
  `QueueTogether` of every page about to be programmed, `QuietQueue` says that a
  handler without effect on RAM leaves the current slot alone, `Backed` that RAM
  follows the current slot once a handler changed the key, `KeylessBoot` that a boot
  without a pair leaves no valid slot until a handler changes the key. `PairsCoherent`,
  `ActiveKeysBacked` and `BootsFindValidSlot` are its corollaries.
- **MutualAuthProofs.** `HandshakeAgrees`: MutualAuth implies `Agreement`, for any
  number of challenges. The invariant adds that a nonce answers one challenge and that
  a challenge still open was accepted in no pair.
- **LiFiLinkProofs.** `LinkInvariant` proves `LinkInv`. `SoundUart` and `SoundLight` say
  what a frame under way vouches for: the challenge of an HS1 was drawn, the pair of an
  HS2 was answered, the pair of an HS3 was accepted by the receiver. That is what makes
  the acceptance of an HS2 or HS3 a step of MutualAuth; it survives every other step
  because challenges and histories only grow. The receiver's part says that its key is
  whole or absent and that a wait for the ACK has a pending key, which `NeverZeroKey` needs.
  `LinkImplements` maps each step to a step of MutualAuth or to none; with
  `HandshakeAgrees` it gives `LinkAgrees`, injective agreement over the lossy link.
- **DashReceiverProofs** has the three modules about dash_receiver that share no state;
  names in ReplayWindow and StatusQueue are chosen so that it can extend them all.
  *Replay window:* `RingIsRecent` is inductive: the slot at `idx` holds the
  oldest nonce. With it, `ReplaysBlocked`: a nonce in any of the last `Cap` places is
  found in the ring, so a new one is none of them. `FreshNoncesPass` follows too.
  *Status queue:* `QueueInv` joins types, the ring and the wake-up with an
  ordering: what was posted lies before the message in hand, that before the
  backlog, that before the next offer. This is what `PostsInOrder` needs.
  *Threads:* `ThreadsInv` adds to `IdNamesMac` where the next id and MAC key
  come from (`KeysTogether`: the key being installed is one of Auth's or was pushed, and
  the material in the mailbox was),
  and for `ForceActsOnNewest` what the mailbox has to do with the newest request
  (`MailboxIsNewest`).
- **KeysAndAskProofs.** `HandshakeInvariant` is LiFiLink's argument in bytes: every chunk on
  the wire, and every chunk the asker has yet to write, belongs to a frame that vouches for
  what happened (`SoundFrame`), and what the manager has yet to write is the end of one
  frame. `SplitImplements` follows; the challenge of MutualAuth is open from the moment the
  asker draws it, that is, while HS1 is still being written (`WritingHS1`) as well as in the
  state HS2. `SplitAgrees` is injective agreement on the shared wire. `PicoHoldsOneKey`
  is the hard one. A header made up from other bytes
  finds nothing read yet (`lacking # 0` in `FieldsInv`). Of the chunks on the wire and those
  to be written (`Wire`) it needs an
  order among the manager's alone: each but the header comes right after its predecessor
  of the same frame, or first (`Ordered`); only the first chunk may have lost bytes. Then what
  the Pico has read decides what it may read next (`FieldsInv`): after an id, a header, the
  rest of an id, or the cipher key of that id. Whatever the asker writes in between may
  turn a field to Junk but not into part of another key. `StreamInv` asks for this only
  while nothing overran.
- **FramingProofs.** `ReaderInv` and `LineInv` are types: a read under way has one to four
  parts, and the frame on the line is one that is sent. A read that began with the
  frame lacks exactly what the frame has left (`AlignedInv`), whatever happened before. A
  read with a true length lacks at most the bytes left and the `lost` ones, those that the
  line lost since it got that length (`SureInv`). Misread bytes and noise do not count. A
  read that lost as many bytes as the shortest frame has, 17, can swallow a whole second
  frame: `Standing` then calls the frame that meets it astray, as it does for a read
  whose length was false, and `SecondFrameArrives` says nothing of the next one.
  `IntactFramesArrive` needs `OnTrack`: a
  frame that began outside of any read is followed byte by byte, from the preamble through
  each program's table of branches. `SecondFramesArrive` needs `Outlived`: whatever the
  frame before left under way, a preamble's beginning, a tap, a FIFO being flushed
  or a read, ends within an intact frame and leaves the program outside of a read at the
  next (`LateInv`, `HeirInv`). The attempt showed that two arms of the CASE in `Bytes`
  overlapped for the readers of text, which is corrected, and that a text buffer
  needs two characters.
- **CompressionProofs.** `CodecInvariant` says what the stream means. Its first `e` bits
  are whole tokens; `out` gives, for the bit at which a token starts, how many bytes of the
  message lie before it, and each token is true of the message (`Parsed`: a literal is the
  next byte, a reference repeats what is that far back). `Buffered` relates the encoder's
  buffer to the message: zeros, then the bytes up to the last one sunk. As no byte of a
  message is 0, a match cannot begin among the zeros (`FoundRepeats`). `Encoded` says, for
  each state of the encoder, which bits of the next token are pushed and what the search
  left for the others. `Standing` says the same of the decoder, and `Output` that its ring
  has the last windowful of what it gave; two bytes less than a window apart have different
  places in it (`PlacesDiffer`), so a reference that overlaps its own output reads what it
  has just written. The zeros that pad the last byte look like the beginning of a
  reference but are too few for one (`1 + WindowBits + LookaheadBits >= ByteBits`), and a
  decoder that has used up the stream has finished every token (`TokenFits`). So
  `NeverWrongBytes`, `WindowfulsArrive` and `CodecTypeCorrect` follow, and `CutStreamsStay`:
  poll loops that end before the encoder is done have filled `compressed_buf`, which is
  beyond the longest message, so that the sender's comparison refuses the stream.
  The model's recursive functions are unfolded by induction over sets of numbers
  (`Induction`, from the well-foundedness of `<`): powers of two (`BitSteps`), `get_bits`
  as the inverse of `push_bits` (`RoundTrip`), the index and its chains (`IndexSound`,
  `ChainSound`).
- **DashboardProofs.** `DashboardInvariant` follows the one operation that ran alone from
  its start. `Undisturbed` says that it is the only handler in a place that changes keys, and
  that a report stands only until the next one begins; `Progress` says what the globals, the
  mailbox of the Pi4 and its key are at each place of it: after the load the ids agree, after
  the push the mailbox or the Pi4 has `Pushed`, and an answer to a challenge was computed
  under the Pi4's present key. `ClaimHolds` is what is left of this when it reports,
  and every step of frames, monitor, user and mailbox keeps it. `ReportsAgree` and
  `DashboardTypeCorrect` are its corollaries.

Only model-checked: liveness (`FallsQuiet`, `QueuedIsPosted`, `RequestsServed`,
`LastFrameReported`, `Completes`, `ReadsEnd`, `ProofDecays`, `ShownIdSettles`), which the
prover does not reach.

## 6. Findings

With a run each:

1. **The key manager's KEY frame is too long** (`PicoTakesSentKey`).
   `keys_receiver.c:416`: "[KEY_ID:8][CIPHER_KEY:16][MAC_KEY:32]". Lines 428, 485 and 536
   write `SESSION_KEY_SIZE` bytes of `cipher_key`, which `protocol.h:29` sets to 32;
   the Pico reads 16. It takes 16 bytes of cipher key and 16 of MAC key for its MAC key,
   so messages decrypt but no handshake with that key succeeds, and the last 16 bytes
   are hunted through. dash_receiver.c uses `SST_KEY_SIZE`.
2. **Messages longer than the window lose their end** (`WholeMessageArrives`).
   `lifi_session_sender.c:610`: "Sink the whole payload to encoder". One call of
   `heatshrink_encoder_sink` takes at most 256 bytes; its count is not looked at.
3. **A key may be shown as proven that was not** (`VerifiedKeyWasProven`).
   `app.py:32-34`: the flag "only flips True once the Pico has actually proven, optically,
   that it's transmitting with this key". `handle_pi4_frame` checks the signature
   first and sets the flag later; another thread swaps the key in between.

Met while modelling, without a run:

4. **The ACK of a key update shows nothing.** `dash_receiver.c:2316` and 2323: "ACK
   received. Finalizing key update." and "New key is now active". The ACK decrypts
   only under the old key, so it comes from a Pico that has not taken the new one
   yet, and the receiver changes to a key the Pico does not have (`RecvAck`).
5. **The feed is never enabled by a frame.** `app.py:407`: "First valid authenticated
   frame from Pi4 - auto-enable WiFi feed". `handle_pi4_frame` assigns `rx_source` without
   a global statement for it, so its read at line 406 raises UnboundLocalError.
6. **A boot ignores the last-used slot.** `docs/CRYPTO_AND_KEYS.md:153`: "Device always
   starts with the last-used slot." `load_session_key` (`src/pico_handler.c:194`) tries slot
   B first; `load_last_used_slot` is never called.
7. **A new key overwrites the current slot.** Lines 148-150 of the same page: "written
   to inactive slot", "Old slot remains valid as fallback until explicitly cleared". A KEY
   frame and `new key -f` erase the current slot (`lifi_session_sender.c:440`).
8. **/status may name the key before a rotation.** `dash_receiver.c:409-410`: "/status
   and /challenge need to always report the CURRENT key". Case 'n' (line 1343) replaces
   `s_key` alone.
9. **/challenge may name a key it did not use.** Line 407: "The hex ID of whatever key
   g_rep_mac_key currently holds". `challenge_handle` (line 972) reads key and id in two
   critical sections.
10. **The asker's search is by 32 bits** (`ask_receiver.c:389` and 408; see KeysAndAsk),
    and **KEY frames have no CRC** (`docs/PROTOCOL.md`: "CRC16-CCITT appended to every
    frame").

## 7. Plan

Modelled: the key store, the nonces, the link, the replay window, the receiver's threads,
the key manager and the asker, framing, compression and the dashboard. Every safety
property that a run checks is proved (section 5). Next:

1. **Action properties** of the proved modules: that an answered nonce is never answered
   again in the link, that a challenge of the dashboard ends within its polls.
2. **The hazards without a property** (PROJECT.json): the id read off the list at the ACK,
   the signature outside the mutex, `/challenge` in two critical sections.
3. **Larger instances** of KeysAndAsk (three events) when its state space allows.
4. **Speed test senders**, if they get a protocol of their own.

## 8. Not modelled, and why

- AES-GCM, CBC, HMAC, SHA-256, the DRBG and the PIO transmitter: taken as correct;
  outside the reach of model checking.
- CRC-16 is ideal in Framing: a frame hit by faults from its TYPE on is refused. No
  payload contains a whole preamble. Times are reduced to "the deadline passes when
  bytes are missing"; at low baud rates the deadlines of an encrypted frame, at 0.1 ms
  per byte, may pass while it still arrives.
- Of the bridge: raw mode and the baud command. Of the speed tests: the senders, and
  the counters of the receiver. The raw monitor and the flash tool keep no protocol state.
- Of the dashboard: serial bridges, reassignment of ports, baud changes, test runs, and
  the front end, which shows what the backend reports. The time between a reload and a
  NEW KEY that overlap is in Dashboard, but what they leave behind is judged only once
  an operation runs undisturbed (`AgreedAsReported`). A `/force_key` is queued before its
  handler goes on or never: one that lies in the network until after the handler's timeout
  is left out. `_mac_key` and `_loaded_cipher_key` are read in one step for its body
  (`app.py:556-557`), between which no call lets another thread in but the interpreter may.
- Of the shared UART: a `write_all` that the kernel takes in two parts with the other
  program's bytes between them, which needs a port whose queue (4 KB) is full.
- `flash_receiver.c` and `flash_og.c` handle keys and commands in an earlier form of
  dash_receiver.c; only their framing is modelled. In ask_receiver.c the display of
  encrypted frames leaves keys and states alone; its decompression is in Compression.
- The screens, statistics, logging and the serial reopen by 'r' of the receivers; the
  sender's LED and raw-bit commands.
