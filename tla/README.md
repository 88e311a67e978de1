# GarageAlarm in TLA+

GarageAlarm watches a garage door. A battery-powered sender reads a magnetic
switch and reports the door by LoRa; a receiver at home decrypts the messages,
rejects repeated ones, and notifies a phone through Firebase. This directory
models that program (C++ for two Raspberry Pi Picos, some Python and Java) in
TLA+, checks it with TLC on small instances and proves nearly all of its safety
properties, and its refinements, with TLAPS for every instance.

Contents: [the system](#the-system), [the models](#the-models),
[the runs](#the-runs), [the proofs](#the-proofs),
[what is not modelled](#what-is-not-modelled), [the plan](#the-plan).

## The system

| Part | Source | State | Operations |
|---|---|---|---|
| LoRa packet | `common/common.{h,cpp}` | `Packet`: header, 16-byte vector (8 random bytes, 8 bytes of counter), payload | `lora_write`, `lora_read`, `parse_packet`, `iv_top`, `iv_bottom`, `inc_iv_bottom` |
| doorwatcher, the sender | `doorwatcher/main.cpp` | the packet, the `state` last told, `last_time` | `init_encryption` once; `check_door` for ever: read the clock and the switch, send if the reading is new or 15 minutes old, go dormant until the switch changes |
| watchdog, the receiver | `watchdog/main.cpp` | `iv`: nothing, or the upper half and the counter of the newest message | `watch` in a loop: read the radio, `handle_packet`, call the action handler with a door action or a warning |
| variant A's handler | `watchdog/main.cpp` | none | `print_action` on the USB serial line |
| variant B's handler | `watchdog/main.cpp` | `auth_token`, `last_oauth_timestamp`, `last_expires_in`, the RTC | for each action: renew the OAuth2 token if due, send a Firebase message |
| TcpClient | `watchdog/tcpclient.cpp` | the pcb, the request to be written, the response buffer | `send_message`, `is_finished`, `get_last_response`; six lwIP callbacks |
| Dns, Ntp, OAuth2, FCM, HTTP, DateUtils, Poller | `watchdog/*.cpp` | the RTC, NTP's `test_time` and alarm, an address | `lookup`, `loop`, `create_request`, `parse_response`, `read`, `write`, `to_epoch`, `poll` |
| RS256, BASE64, StringUtils | `watchdog/*.cpp` | none | signing, encoding, removing white space |
| notifier | `notifier/main.py` | none | read a line of variant A's output, send a Firebase message |
| app | `app/` | the table of events | a message inserts an event and shows a notification; the user deletes all events |

How they interact. The sender and the receiver share nothing but the air and
the preshared key: LoRa is used peer to peer, without acknowledgements. The
receiver calls its action handler, and does not read the radio until it
returns. Variant B's handler starts a TCP connection and polls
`is_finished()`; lwIP answers from a background interrupt
(`pico_cyw43_arch_lwip_threadsafe_background`) by callbacks that change the
client's state under the polling loop. NTP's answer and its alarm set the RTC
and NTP's timers from interrupts too. Variant A and the notifier share a
serial line; the phone gets what Firebase delivers.

Which behaviours are hard, and for each part what makes it correct:

- *Packet.* A counter split into bytes by hand, read back by position: the
  counter must count, and a receiver must read the vector that was sent.
- *Sender.* The door moves while the program reads, transmits (a second at
  spreading factor 10) or falls asleep: what it remembers must be what it told,
  and it must not sleep on a position it has not told. A key stream must be used
  once, over all battery changes.
- *Receiver.* Frames are lost, repeated, late, foreign; either end restarts:
  nothing may be reported that was not sent, nothing twice, nothing after
  something newer; warnings must have a cause.
- *TcpClient.* A server may stay silent, close early, answer in pieces; lwIP may
  refuse a connection or abort it: every connection must end, and a response
  must be the response to the request it is taken for.
- *Push handler.* Tokens expire, renewals fail, the RTC is unset at first and is
  set back later, and a request whose connection was given up may still arrive:
  an action must be tried, at most once, no token may be outlived, and the
  handler must come back to the radio.
- *Receiver and push handler together.* The LoRa module stops receiving with the
  frame it hands over, and nobody sets it to receive again while the handler
  waits: what is sent then is lost, what is heard must stay in order, and the
  watchdog must come to listen again.
- *Dns.* One object serves all lookups: an answer must belong to its lookup, and
  every lookup must end.
- *Ntp.* An answer races with the alarm; requests repeat while none comes: the
  client must ask for ever, cancel no other alarm than its own, and not pile up
  alarms.
- *HTTP and OAuth2.* An answer comes in any layout, and only a part of it may be
  kept: a cut token must not be taken.
- *DateUtils.* Hand-written calendar arithmetic must count seconds.
- *Notifier.* Every error ends the process and systemd starts it again: nothing
  may be posted twice or late, and it must come back to reading.
- *App.* Four threads insert and delete, and several may ask for the database
  first; the process may die between the notification and the insertion: one
  database, a complete list with the latest in time on top, and nothing received
  lost unless the process is killed or the history deleted around it.

`PROJECT.json` lists these hazards with the line each bites at and the
properties that cover it.

## The models

```
LoRaPacket          packet, counter, parsing, symbolic cipher
  DoorWatcher       the sender and the door
  WatchDog          the receiver
    GarageLink      both over an unreliable channel; implements DoorReports
DoorReports         what the link promises (abstract)
TcpClient           lwIP client
  PushNotifier      the action handler of variant B, with one TcpClient;
                    implements ActionFeed
    PushWatchDog    variant B as one program: WatchDog calling PushNotifier
Resolver            what a name lookup promises (abstract)
  Dns               the lookup; implements Resolver
Ntp                 the NTP client and its alarms
Calendar            the arithmetic of dates, against the passing of seconds
HttpReader          requests written, answers read, the token found in them
  TokenLife         both: a token from its answer to the decision to renew it
ActionFeed          what notifying promises (abstract)
  Notifier          the process beside variant A; implements ActionFeed
EventStore          the app: messages, writer threads, table, notifications
EventDatabase       the app: who makes the one database
  EventApp          both as one process
```

Definitions keep the names of the source. `map` in `PROJECT.json` says which
lines each stands for. An operator whose comment begins with "Mutant" is a
plausible mistake in the definition after it; no specification uses it. It is
there to show that a property notices: put in the place of the definition it
makes TLC report the property it is listed with.

**LoRaPacket.** Bytes are numbers below `Base` (256 in the code). A small
`Base` brings the carries and the wrap of the counter close; `Base2` and `Base8`
are the numbers of values of two bytes and of the counter's eight. Vectors and
frames are indexed from 0 as in the code. `inc_iv_bottom` stores
`bottom >> 8*k` byte by byte; `parse_packet` copies `iv[i]` from byte
`SourceByte(i)`, which is `i + 1` except that element 12 comes from byte 14
(`common.cpp:60`). AES-128/CTR is symbolic: a ciphertext remembers its text and
its vector, and another vector gives `"garbage"`. A real decryption with a wrong
vector gives five random bytes, one of the two messages with probability
2^-39; that is the abstraction.

**DoorWatcher.** `pc` follows `main` and `check_door`: `boot`, `check`
(reading the clock and the switch), `send`, `arm` (from the end of sending to
the enabling of the dormant interrupt), `dormant`. `MoveDoor` may happen at any
of them and latches an edge in the GPIO block. The clock stands still in
dormancy, as `time_us_64()` does. Arming the interrupt (`go_dormant`) clears the
edges latched earlier: `gpio_set_dormant_irq_enabled` of the Pico SDK
acknowledges stale events before it enables. `Restart` is a change of batteries
at any point.

**WatchDog.** `radio` is the frame in the buffer of the LoRa module and `mode`
how it receives. `LoRa.receive()` in `main` lets it receive one frame after the
other; `parsePacket()` (`common.cpp:29`) leaves it in standby when it hands over a
frame, and otherwise sets it to receive a single one, which ends with the frame
or with a timeout. In standby nothing is heard until the next turn of the loop.
The driver is external code. `watch` is a whole turn of the loop, with every early return of
`handle_packet` (a short frame, another header, no message). `log` is a
history: the calls of the action handler since the start, which are also what
variant A prints.

**GarageLink** has the variables of both ends and instantiates both modules.
`sent` is a history of the messages with their frames; `Hear(i)` lets the
receiver hear any of them at any time, so loss, repetition, delay and
reordering need no further actions. `HearForeign` is other traffic. The eight
random bytes of a start are taken to be new ones (`used`): their quality is a
matter of the radio, and without the assumption nothing can be said about
restarts. **DoorReports** is the promise: states are told in runs, and a report
is a message told, newer than the last one reported and of its run.
`reported` is a history of the receiver's start: for each door action, the
message that its vector names (`Origin`) and the state it gave.
`ImplementsDoorReports` maps `sent` to `told` (the upper half is the run) and
`reported` to itself.

**TcpClient.** `tcp_pcb` is what lwIP knows of the connection: `nullptr`,
`new` (created, but `altcp_connect` failed: lwIP will never call back),
`connecting`, `connected`, `aborted` (freed by lwIP, reported as `ERR_ABRT`,
which the client ignores). One action per callback; each callback runs in
lwIP's interrupt as a whole. `altcp_write` only queues the request (`wire`); the
server reads it in a step of its own (`arrives`), or never. `close` takes the
callbacks back, so pieces under way are dropped, but lwIP sends its FIN behind
what is queued: a request that the server has not read stays under way (`late`)
and may be read at any time after (`arrives_late`), behind later ones too. A piece is the request it answers, its place in the answer and
its size, and in the buffer also its place there; a server's answer is the
sequence of where its pieces end (`Replies`). `wire`, `late`, `reply` and `asked`
are the network's side.

**PushNotifier.** `pc` is the handler's position; between two of its steps
callbacks, clock ticks and NTP answers come in any order. Two clocks: the true
time, by which Google makes and judges tokens, and the RTC, unset until NTP
first answers. It is unset because `rtc_set_datetime` in `main` is given
`.dotw = 7`, which the SDK refuses; `unixnowseconds` then converts what the
stack holds, here one of `Garbage`. Tokens are named by the action they were
asked for. `RenewalDue` has the unsigned subtraction. A lookup gives an address
or none. A signature or an encoding may fail (`sign`, `base64`), which only the
server notices. An answer that is there in part may or may not give its token;
HttpReader shows that it gives no other. What a server makes of a request that it
reads (`Served`) is external. Only requests to FCM are followed when they are
late (`Lasting`): nobody receives the token that a late one to OAuth2 grants.
`highest`, `set_back` and `taken` are a history of the times that the handler
went by. `ImplementsActionFeed` maps the actions handed to the handler, those FCM
has accepted and those under way on closed connections to **ActionFeed**, the
promise it shares with the notifier: each action at most once; while the handler
waits, only one newer than all before; behind newer ones only an action that was
given up with its message under way.

**PushWatchDog** extends WatchDog and instantiates PushNotifier. A turn of the
loop (`Turn`) starts only when the handler has returned; in the step that
reports an action the handler is called. `Radio` may come at any time, but hears
nothing in standby, so nothing between the turn that reports an action and the
next one. `PowerFails` is a loss of power: all memory and the clock are gone;
what Firebase accepted stays, and what is under way may still arrive. `begun` counts the actions before
the latest start, so that action `n` is entry `n - begun` of the receiver's log.

**Dns.** `lookup`, the loop's `request` and `return`, and lwIP's callback
`found`, which may come between any two of them. lwIP knows the address at
once, takes the request on, or refuses it. When no server knows the name it
calls back with no address, and the callback copies from address zero all the
same (`dns.cpp:25`): `Wild` is whatever is there. **Resolver** is the promise:
one answer for each question, for the name that was asked.

**Ntp.** Times are what is left of them, in units of the half second of a poll.
`loop` to `add_alarm_in_ms` are the steps of the program, the answer, the alarm
and a stray packet come from interrupts between them. The pool gives out the
lowest free id, so that an id is reused as soon as it can be; `Foreign` is an id
that the uninitialized `resend_alarm` may look like, until the first alarm is set
(`added`, a history). `orphans` remembers alarms that were pending at the latest
result.

**Calendar.** The date goes on second by second as `gmtime` gives it (the
Gregorian rules, external), and `to_epoch` has to follow. The numbers of
seconds, minutes and hours are constants, as are the width and the origin of
NTP's counter.

**HttpReader.** A text is a sequence over the symbols `Char`; a symbol stands for
characters no search looks into. The input is any contiguous part of an answer,
since the TCP client may lose an answer's start (its buffer limit) and its end; or
a request that `write` has written. An answer is a record of its head, its body
and what it grants, a token with its lifetime or `Nothing`. `AnswersAssumption`
says what servers send: the first empty line ends the head (`IsHead`), and without
its white space the body has each mark at most once and after it the granted
value up to a delimiter (`Grants`). `RequestsAssumption` says what `main` sends: no
line break in a name or a value, no colon in a name, no name twice. Both are
about texts, not about what the code finds in them. `read_first_line` and `read_field` are the stages of
`HTTP::read`, `parse_response` is the search of `OAuth2`. `substr` with a start
behind the end throws (`thrown`).

**TokenLife** joins the two: `Read` is HttpReader, `Renew` takes the token with
the time of the RTC, `Second` is a step of Calendar, and `RenewalDue` is the
comparison the handler makes. The clock starts at any date for whole answers
that grant a token, and at one date for all others, which the clock does not
matter to.

**Notifier.** The lines with action words are numbered; the port holds lines
only while the process has it open. Every call that may raise has a branch that
ends the process; one that ends it in `requests.post` may leave the message under
way (`adrift`), and `post` may also never return.

**EventStore.** The table is the sequence of its rows by id. `getEvents` is the
set of the listings that the query may give: `ORDER BY timestamp DESC` leaves
the order of rows with equal timestamps open. A task is taken from the queue by a thread
and run by it in two steps, so that tasks overtake each other. A message makes
a repository first (`taken`), then the event is queued, then the notification is
shown. `Kill` is Android ending the process: what is queued is gone, table and
notifications stay. `ClockSteps` is what the clock of the sender of the messages
shows from one event to the next: more, the same second, or less when NTP has set
it back. **EventDatabase** is the double-checked
locking of `getDatabase`, one action for each access to the field and to the
monitor. **EventApp** composes them: the service calls `getDatabase` for every
event, on its thread, and goes on when it has returned; the screen calls it on
the main thread for its view model, and can delete only then; `ProcessKilled`
takes the database object too.

## The runs

| Run | Question | Result |
|---|---|---|
| `sender` | Does the sender believe what it sent, tell each position it reads or is woken for, count its messages; and what does `parse_packet` misread? | holds, 104,520 states |
| `sender_missed` | Does it never sleep on an untold position? | violated: lost wake-up |
| `link` | No vector twice, nothing reported that was not sent, the abstract channel implemented, every newer message among the first `Base`² of a start reported? | holds, 328,464 states |
| `link_counter` | And a later one? | violated: misread vector |
| `push` | The promise of ActionFeed, own grants, each action tried and no token outlived whatever the clock does, handler returns; responses of the latest request, kept from their start up to the limit | holds, 1,114,397 states |
| `push_stuck` | Does the handler always return? | violated: abandoned connection |
| `push_watchdog` | Reports in order and once, warnings with a cause; does what Firebase accepts follow the order of the sender's messages, but for requests given up under way; does the watchdog listen again? | holds, 137,513 states |
| `dns` | Does an answer belong to its lookup, and does every lookup end? | holds, 263 states |
| `ntp` | Own alarms cancelled, none piling up, asking for ever? | holds, 1,864 states |
| `token` | No cut token, the whole token, what is written is read, no exception; do dates and NTP's counter count seconds; is a token used for as long as it was granted? | holds, 106,068 states |
| `notifier` | The promise of ActionFeed through errors and restarts; does it come back to reading, unless a request hangs? | holds, 3,968 states |
| `app` | One database, every call returns, a complete list with the latest in time on top, everything received stored and notified unless a deletion or a kill comes between? | holds, 108,978 states |

What each property says is in the comment above it. The violations are
the findings of `PROJECT.json`:

- *Misread vector* (`common.cpp:60`): message 65,536 of a start is the first
  whose bytes 12 and 13 differ. From there the receiver drops nearly every
  message. `MisreadFrom` says exactly which are still read: those whose two
  bytes agree, one in 256.
- *Lost wake-up* (`doorwatcher/main.cpp:41`): the switch is read once, a second
  or more before the interrupt is armed; a movement in between is cleared as
  stale, and the sender sleeps until the door moves again.
- *Abandoned connection* (`watchdog/main.cpp:155`, `tcpclient.cpp:97`, `:105`):
  the handler waits for a callback that cannot come.

What else was met while modelling. It is in the modules, and no property is
written against it, or the property says what it excepts:

- Firebase may accept action n after action n + 1: `altcp_write` only queues
  (`tcpclient.cpp:158`), the poll callback closes after five seconds (`:58-65`), and
  lwIP sends what is queued all the same. Nothing in the watchdog prevents it. The
  message carries the time it was made at (`fcm.cpp:37-65`), by which the app
  sorts; the notification on the phone is the one that came last.
- A failed renewal leaves no token and an old timestamp
  (`watchdog/main.cpp:151`). If NTP has set the clock back since, by less than it
  takes to look like a wrap, the renewal does not look due and actions are
  dropped, for up to 3599 seconds. `EveryActionTried` says that this is the only
  way, and `push` runs with a clock that gains a second and is set back.
- A token taken while the RTC was not running gets whatever the stack held for
  its time (`dateutils.cpp:50`); if that is ahead of the true time it is kept that
  much longer, and FCM refuses it. `TokenNotOutlived` excepts it
  (`PassedGarbage`).
- What the sender transmits while the handler waits is lost, since nobody sets
  the LoRa module to receive (`common.cpp:29`, `watchdog/main.cpp:155`, `:181`).
  The position is told again with the next heartbeat, after 15 minutes.
- A name without an address is "resolved" to what is stored at address zero
  (`dns.cpp:25`, `Wild`); the retries and the messages for names that could not
  be resolved are for refusals only.
- The first result of NTP may come before the first alarm is set and cancels the
  alarm that the uninitialized `resend_alarm` names (`ntp.cpp:41`, `:141`).
  `CancelsOwnAlarm` is about the time from the first alarm on.
- NTP's alarm is set after the request (`ntp.cpp:107`), so an answer may come
  first, and a request repeated while an alarm is pending overwrites its id. The
  alarm left over reports an answered request as failed. `OrphansGoOff` shows
  that those from before a result have gone off when the client asks again; how
  many it adds while no result comes is bounded by the pool only.
- The five calls of `loop()` at the start (`watchdog/main.cpp:132`) send at most
  what is due and wait for no answer: the receiver may start without a time.
- The notifier fetches its token after it has read the line
  (`notifier/main.py:37`): if that fails the action is lost, as ActionFeed
  allows.
- The app's notification does not wait for the write (`EventRepository.java:25`),
  and four threads keep no order between a deletion and a later insertion
  (`:31`): `ReceivedIsStored` excepts the events received before a kill or around
  a deletion, and holds again for those after.
- The history is ordered by the sender's clock (`EventDao.java:18`), which NTP
  sets back when it was ahead, and which shows the same second twice: then the
  last event may not be on top. `KeepsTrack` promises that place to an event that
  is later in time than all others, and a complete list in any case.
- A server that takes the connection and never answers stops the notifier for
  good: `requests.post` has no timeout (`notifier/main.py:50`), and systemd does not
  restart a process that hangs. `KeepsReading` says that nothing else does.

**Bounds.** `Base = 2` makes the vector misread from message 4 on and needs six
messages (`MaxSent`) to show it and to go past it; it also runs the sender
through all 256 values of its counter and the wrap. Two upper halves are enough
for every comparison of one with another, and three messages over two starts
for every order of two reports around a restart. `Heartbeat` 0 or 1 with a clock
of one or two ticks makes both reasons to send occur. `MaxLog` bounds the
reports of one receiver's run: two suffice for the properties of the link, which
relate two reports. In `push`, three actions, lifetimes of one second and three
seconds of time let a token be granted, expire, fail to be renewed and be wanted
again; the RTC gains up to a second (`Fast`), is set back by NTP, and shows the
true time or a second far ahead before that (`Garbage`); an answer of three bytes and a limit of two let pieces reach the limit
exactly and pass it.

`push_watchdog` leaves the life of tokens to `push`: two actions and one restart
let two reports and two notifications be compared, the first of them arrive behind
the second or after the loss of memory, and frames be sent while nobody listens. Its frames hold counters
equal, above and below each other, another upper half, a frame too short to be a
packet and a foreign one. `dns` has the two servers of the program and its five
retries. `ntp` keeps the order of the two times (3 before 5 units), has three
alarms in the pool, two requests unanswered at a time and two stray packets.

`token` takes every contiguous part of ten answers (six orders of three fields,
laid out in lines, in one chunk) and an error, and of nine requests. A token is
taken a second before the end of any month of the years 2000 to 2005, 2099 to
2101 and 2399 to 2401, which hold every kind of leap and common year and both
kinds of century, and is followed two seconds beyond its 35. A day has eight
seconds, and NTP's counter wraps in one of these months. The proof about the
calendar does without bounds. `notifier` has four actions and a port for two
lines, so that lines are lost, wait and are read. `app` has two events, one
deletion, one kill, a clock that goes on, stands or is set back by a second, and
three threads in the pool instead of four, as many as there can be tasks at a
time.

**Deadlock** is checked where the system runs for ever. It is not in the `push`
runs and `push_watchdog` (the clock and the actions are bounded), `token`
(reading ends, and the seconds are bounded), `notifier` and `app` (lines,
databases and messages are).

**Fairness.** The sender's program steps are weakly fair: the processor runs
when it is awake, and a latched edge restarts its oscillator. Neither the door
nor the clock owes anything. In TcpClient only the poll callback is fair: lwIP
calls it every ten half seconds for a connection it works on, and calls nothing
for one it refused or aborted. A server owes nothing, nor does the network owe it a request. In PushNotifier the
handler's own steps are fair too: the processor runs, and a DNS lookup ends
(`LookupEnds`). PushWatchDog adds the turns of the loop.

Dns, HttpReader (in TokenLife), and EventDatabase and EventStore (in EventApp): the program's own steps are
fair, since a processor or a scheduler runs every thread that can run. The
callback of lwIP's resolver is fair because lwIP repeats a query a few times
and then gives up, with a callback in either case. Of the monitor only weak
fairness of each thread's attempt is assumed. Ntp: the loop, the clock and
alarms that are due; answers owe nothing. Notifier: systemd's restart
(`Restart=always`), the processor, and that the request for a token ends, in an
answer or an exception, since google-auth gives it a timeout. `requests.post` has
none, and nothing is assumed of it.

## The proofs

All results hold for every value of the constants that the `ASSUME`s allow: any
`Base >= 2`, any frames, servers, lifetimes, threads, any number of messages. A
`...Proofs` module extends the module it is about; ServiceProofs holds the proofs
of Dns, Ntp and Notifier together, which share no name, TokenProofs those of
HttpReader, Calendar and TokenLife, and EventAppProofs those about the app. GarageLinkProofs and PushWatchDogProofs,
about modules composed of two, take the theorems about the parts by INSTANCE.

| Theorem | States | Hypotheses besides the `ASSUME`s |
|---|---|---|
| `DoorWatcherProofs!TypeCorrect`, `BeliefIsTold` | the sender's types; what it compares with is what it told | |
| `DoorWatcherProofs!MessagesAreCounted` | the counter of bytes adds one, through all carries and the wrap | |
| `DoorWatcherProofs!MisreadExactly` | the vector is read back exactly when its bytes 12 and 13 agree | |
| `WatchDogProofs!TypeCorrect`, `ReportsInOrder`, `WarningsAreJustified` | the receiver's types; reports of one upper half with rising counters; no warning without a cause | |
| `GarageLinkProofs!TypeCorrect`, `ReportsWereSent` | the types of the composition; a reported state was sent | |
| `GarageLinkProofs!VectorsAreUsedOnce` | no vector twice, over all starts of the sender | `MaxSent < Base8` |
| `GarageLinkProofs!LinkIsChannel` | GarageLink implements DoorReports | `MaxSent < Base8` |
| `GarageLinkProofs!EarlyMessagesAreReported` | a newer message among the first `Base2` of a start is reported when heard | |
| `GarageLinkProofs!ReadRightIsReported` | of the messages to be accepted, those whose bytes 12 and 13 agree are reported when heard, and no others | |
| `PushNotifierProofs!TypeCorrect` | the types of the handler and its client | |
| `PushNotifierProofs!ResponsesAreLatest`, `StartsAreKept` | the buffer holds a contiguous part of the answer to the latest request, and its start up to the limit | |
| `PushNotifierProofs!FeedsActions` | PushNotifier implements ActionFeed | |
| `PushNotifierProofs!RenewalsTakeOwnGrant` | a renewal takes the token of its own request | |
| `PushNotifierProofs!ActionsAreTried` | every action makes the handler look a server up, unless a time it went by was smaller than one before | |
| `PushNotifierProofs!TokensAreNotOutlived` | no token is used longer than granted, but for what the clock is fast | |
| `PushWatchDogProofs!ProgramReportsInOrder` | the receiver's two properties in the whole program | |
| `PushWatchDogProofs!NotifiedInOrder` | what Firebase accepts follows the order of the sender's messages, but for requests given up under way | |
| `PushWatchDogProofs!ProgramFeedsActions` | the program, losses of power included, implements ActionFeed | |
| `ServiceProofs!DnsTypeCorrect`, `AnswersForItsName` | the types of a lookup; Dns implements Resolver | |
| `ServiceProofs!NtpTypeCorrect`, `OwnAlarmIsCancelled`, `OrphansAreGone` | the NTP client's types; from its first alarm on it cancels no alarm of others; its leftovers go off before it asks again | |
| `ServiceProofs!FeedsActions` | Notifier implements ActionFeed | |
| `TokenProofs!NoPartIsMisread`, `WholeAnswerIsRead` | of any part of an answer no token is made but the granted one; of the whole it is | |
| `TokenProofs!WhatIsWrittenIsRead` | `read` gets back the fields and the body that `write` has written | |
| `TokenProofs!TypeCorrect`, `EpochCountsSeconds` | the date stays one; `to_epoch` counts seconds in all years from 2000 on | |
| `TokenProofs!NtpAnswerGivesTime` | NTP's 32 bits give the time, before and after their wrap | |
| `TokenProofs!LifeCountsSeconds`, `LifeReadsAnswers`, `LifeReadsRequests` | the same for the clock and the reader of TokenLife | |
| `TokenProofs!TokenIsRenewedOnTime` | a token is used for as long as granted | |
| `EventAppProofs!AtMostOneDatabase` | one database, for any number of threads, deletions and kills | |
| `EventAppProofs!ScreenKeepsTrack` | a complete list, on top the last event when it is also the latest in time | |

Some types are proved and checked by no run of their own: those of the receiver,
the link, a lookup, the notifier, the calendar and the database.

**The hypothesis.** `MaxSent < Base8` says that fewer messages are sent than the
counter has values, 2^64 in the code: after its wrap a vector does come again.
The runs satisfy it (3 < 256).

**The counter** (DoorWatcherProofs). `inc_iv_bottom` stores the digits of
`bottom + 1`, and `to` puts them together again. `LastDigit` is the one step, that
the digit cut off and the rest give the number back; `CountsUp` repeats it eight
times, and what is left over the eighth is the wrap. The solver multiplies no
two unknowns, so each step is about one digit and a rest of which nothing more is
known. `MiddleDigits` finds bytes 12 and 13 in the count for `MisreadExactly`, and
in the link `MessageIsRead` follows such a message to the receiver: it is read as
it was sent, or decrypts to nothing.

**The receiver.** `ReportedInOrder` is not inductive: that the next report is
newer depends on what `iv` has to do with the log. `RemembersNewest` says it:
`iv` is empty exactly as long as nothing was reported, and otherwise holds the
upper half of all reported messages and the greatest of their counters, and some
reported message has that counter. The first part gives the order, the
existence of that message gives warnings their cause. `IInv` is the conjunction
of these with the types; `HandlePacketStep` goes through the four branches of
`handle_packet`.

**The link.** `ReportedWasSent` needs what is on its way: `FramesTell` (a frame
is its message sealed under its own vector) and `RadioHeard` (the radio holds
nothing, a sent frame or a foreign one). Although `parse_packet` may misread the
vector, a wrong vector decrypts to no message, so an action that comes out names
the right vector: `CarriedMessage`. Type correctness of both ends is not proved
again: every step of the link is a step of one end and leaves the other alone
(`Steps`), and the theorems about the ends are instantiated.

`IvUsedOnce` rests on `CountersRise`: the counters of one start rise in the order
of sending and the next one is above them all, and a start draws an upper half
that no message has. That a message makes the counter rise, and not wrap, is
where `MessagesAreCounted` and `MaxSent < Base8` come in: the counter is at most
the number of messages.

`LinkIsChannel` needs that a report is of a *later message* than the last one,
where the receiver has only compared counters. `OrderInv` joins three things:
`RemembersLast` (the receiver's `iv` is the vector of the message it reported
last), `CountersRise` (within a start, a greater counter is a later message) and
`NeverGoesBack` (once another start sends, the earlier one sends no more). The
vector of a reported entry names one message only, by `IvUsedOnce`; so `Origin`,
a CHOOSE, is that message, and a step of the receiver is a report of the channel,
a forgetting or a stutter, and a step of the sender tells or stutters.

**The client and the handler.** In the buffer nothing is inductive by itself,
because a piece that arrives is right only if what is still on its way is.
`ReplyFollows` says that the pieces under way continue the buffer without a gap and
answer the latest request, `RequestKept` that a connection writes the request it
was opened for, and `LengthKept` ties the length of the buffer to the place in the
answer, which `StartKept` needs at the limit. These make `Tcp!IInv`, shown once for
each callback, the caller and the end of a connection.

The handler adds whose requests these are: `ClientIsHandlers` (between two
requests there is no connection; while it waits, the latest request is its own,
to the server it waits for) and `FeedInv`. Its part `HandledIsNew` says that
whatever Firebase has accepted or may still get late is of an action not later
than the one in hand, and of an earlier one until its request has been read or
given up; `GivenUpOnce` that no action is under way twice. With `ResponseIsLatest`
they give `RenewalTakesOwnGrant` and each step of ActionFeed: a request that is read
on its connection is a `Deliver`, one left behind a `GiveUp`, one read later an
`ArriveLate`.

`ActionsAreTried` rests on `NoTokenIsDue`: as long as no time the handler went by was
smaller than one before, there is no token only if the times show that a renewal
is due. `TokensAreNotOutlived` rests on `ClocksAgree`: the RTC is never behind the
true time and ahead by `Fast` at most, and the time kept with a token is a reading
not later than that; a clock behind the time kept makes the unsigned difference
huge, and the token is renewed.

**The program.** Both parts keep their invariants: a step of the program is a
step of the receiver or a stutter of it (`StepOfWatchDog`), and the same for the
handler (`StepOfHandler`), except for the loss of power, which is shown apart.
`ActionsAreLogged` numbers the handler's actions as entries of the log. An action
that Firebase accepts in time is newer than all before (`Push!FeedInv`), so
`ReportedInOrder` makes it the report of a newer message; one that comes late is
none of those accepted, so of another message (`DeliveredStep`).

**The lookup.** That an answer belongs to its lookup needs `OwedToThisLookup`:
lwIP owes a callback only while the loop waits for it and for nothing else, so
no lookup ends, and no other begins, before it has come. With
`FoundForThisName` each step of Dns is a question, an answer or a stutter of
Resolver.

**NTP.** `OrphansGoOff` speaks of the moment of asking; what is kept until then is
a race of two timers, `OrphansAreEarlier`: an alarm left over has less time to go
than the poll, by at least the difference of the two times. A result makes the
difference, time passes for both alike, and a result that comes early puts the
poll off.

**The texts.** What is found in a text depends on all of it, so the lemmas are about
places: of a pattern, in a part of a text. `IsPart` says that a text is found in
another behind so many symbols; the places in the part are then places of the
whole (`NothingInPart`, `BetweenInPart`), and the first one in the part need not be
the first of the whole. Removing the white space makes of a part of a text a
part of the cleaned text. The removal is a recursive function, and what it gives
is shown by the least number for which it would fail (`Smallest`, `UpTo`), since
induction with a predicate as parameter is out of reach; `MinIsLeast` gives the
same for `find`.

For the answers, `AnswerInv` follows the loop. `PartRead`: the body, once it is
taken, is a part of the body that was sent, because two breaks in a row are at
the end of the head (`BreaksOfHead`, `BodyOfPart`) or in the body. A mark that the
part has is then the only one of the whole, and what follows it up to a
delimiter is what was granted: a cut token has no delimiter (`ParsedPart`).
`WholeRead`: of the whole answer the loop takes the breaks of the head one after
the other (`NextBreak`), each line has its colon (`FieldIsRead`), and so it gets to
the head's end and takes all of the body.

For the requests, `RequestInv` has the same shape with what is known of
the text `write` makes. `Layout` says where each line ends and what is between;
that there is such a list of ends (`WrittenLayout`) needs that the text is its
lines one behind the other (`FlattenJoins`, of the community modules'
`FlattenSeq`, a fold). After `k` turns `LineRead` has the first `k` fields in the map,
and no other (`FieldAdded`); a value may hold a colon and a body may hold
anything, since the first colon of a line is the one `write` put there and the
first empty line is the one before the body. `Content-Length` comes last and
replaces a field of that name (`AllFieldsAdded`).

**The calendar.** `NextSecond`, `NextDay`, `NextMonth` and `NextYear` are shown one
by one. A month's end is an addition in the table of days, with the leap day
from March on; a year's end needs that the count of leap days rises by one
exactly after a leap year (`LeapDays`), which is shown for the three divisors of
the rule one at a time. `AnswerOfEpoch` is the arithmetic modulo NTP's range. For a
token, `AgeIsDifference` says that the difference of two times of the RTC is the
number of seconds that have passed, by `EpochStep`.

**The notifier.** `InOrder` says where actions can be: those in the port are in
order and newer than the one being handled, which is newer than all that were
delivered. It also needs that a process that is down holds no lines.

**The app.** Only the thread that holds the monitor is between the second check
and the end of the block (`OneInBlock`), and one that builds has seen no database
there (`BuildsFirst`). For the list, `InOnePlace` says that every received event is
in exactly one of the places between the service and the table, as long as
nothing was deleted or killed. When all other places are empty, the table holds
each event once, hence has as many rows as events were sent (`SettledTable`, by the
cardinality of a bijection), and any order by time puts one that is later than
all others on top (`LatestFirst`). That there is such an order for any times is
`CanBeSorted`: each row goes to the place which the number of rows before it gives.

**Only model-checked.** Liveness (`PositionTold`, `HandlerReturnsUnlessAbandoned`,
`ListensAgain`, `LookupEnds`, `AsksForEver`, `ReadingEnds`, `KeepsReading`,
`CallsReturn`, `ReceivedIsStored`): the prover has no rules for fairness and
enabledness. Every safety property and every refinement of a passing run is
proved.

## What is not modelled

- AES, the preshared key, the quality of the radio's random bytes; the bytes of
  a signature and of an encoding: data without control.
- The texts of JWT and JSON beyond the two fields that are looked for. The
  version, status and reason of an answer, which nobody reads.
- An answer in several chunks, whose lengths the code would read as text of the
  body, and `pbuf_alloc` without memory: the code looks at neither. A header line
  that ends with its colon, at which `substr` throws (`http.cpp:72`):
  `AnswersAssumption` excludes it, since the servers put a blank there.
- Notifications replacing each other on the phone (all have the id 0), and
  `onNewToken`, which shows a text.
- Wi-Fi, the LED, logging, the app's screens. `main`'s failures to initialize
  end the program before any of the modelled state exists, and are the same as
  not having been started.
- How long a lookup and the NTP client keep the loop from the radio in
  PushWatchDog: the lookup is one step there. Nothing is heard meanwhile in any
  case.
- lwIP, mbedtls, the Pico SDK, pico-lora, tiny-AES-c, Room, Firebase and systemd
  are not in the repository; what they may do to the code is stated in the
  modules and marked external in the map. `lwipopts.h` and `mbedtls_config.h`
  only configure them.

## The plan

Done, in this order: LoRaPacket, DoorWatcher, WatchDog, GarageLink with
DoorReports, TcpClient, PushNotifier; then Dns with Resolver,
Ntp, Calendar and HttpReader with TokenLife, Notifier with ActionFeed,
EventDatabase and EventStore with EventApp, PushWatchDog; and the proof modules.

What is left is what the provers have no rules for: the liveness properties, which
the runs check on their instances.
