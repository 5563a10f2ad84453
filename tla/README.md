# A TLA+ model of smset, the SMS to WeChat gateway

The repository holds a Windows service that turns the SMS a modem receives into
WeChat messages (`sms2wechat-v7.c`), a script that executes commands sent by SMS
(`sms_route_sync.py`), and a small modem tool (`smset`: `main.c`, `sms_modem.c`,
`pdu.c`, `sms_command.c`). This directory models the parts of them whose
correctness depends on order, interleaving or failure. Line numbers below are
those of `sms2wechat-v7.c` unless another file is named.

## 1. Inventory

### 1.1 Components

| component | code | state it keeps | operations |
|---|---|---|---|
| serial collection and line reader | 248-341, 1376-1487, 1571-1662 | `streamBuf`, `streamLen`, `isLiveCmtReport`, timers of the self-check | collect until quiet, split at `\r\n`, recognise `+CMT:`, drop the oldest bytes of a full buffer, ask the modem three questions after a minute without reports |
| PDU parser and decoders | 397-491, 907-1082 | none | hex, SCA, OA, DCS, UDH, user data |
| reassembly and dispatch | 783-840, 1162-1373 | `pending_queue_head`: one `PendingSMS` per (sender, reference), the tables `raw_sms` and `decoded_sms` | `handle_sms_frame`, `run_garbage_collection`, `flush_incomplete_pending_sms`, `dispatch_decoded_sms` |
| routing cache | 494-663 | `g_cache` behind `g_cache_lock` | `cache_full_refresh`, `query_db_by_ip`, `lookup_wxid_by_tenantip`, refresh thread |
| push thread | 701-780, 843-904 | its result set, `send_status` of the rows | scan 50 unsent rows, post, mark, stop at the first refusal |
| route command script | `sms_route_sync.py` | `wechat_chatroom`, `paas_cluster_tenantname_ip`, `send_status`, the PID file | a cycle per minute in one transaction; `ensure_single_instance`, `remove_pid_file` |
| service shell | 1490-1564, 1665-1811 | service status, stop event, thread handles | start, stop, install, start-up with retries |
| modem sessions | `sms_modem.c`, `main.c` | the serial line, `g_running` | open, initialise, send, receive, self-test, service loop |
| text codec | `pdu.c` | none | GSM 03.38, 8 bit and UCS-2 user data |
| command dispatcher | `sms_command.c`, `jsmn.h` | none (callbacks) | authorise, recognise a prefix, look up, insert |

### 1.2 How they interact

```
 modem --bytes--> line reader --PDU line--> raw_sms, reassembly --text--> dispatch
                  (receive thread, 1571-1662)                              |  |
                                         route cache <---tenant ip---------+  | INSERT, send_status 0
                                    (rwlock; refresh thread replaces it)      v
 WeChat gateway <--HTTP-- push thread (own connection) <--SELECT/UPDATE-- decoded_sms
 WeChat gateway <--HTTP-- sms_route_sync.py (other process) <-transaction-----+
```

* The **receive thread** does everything from the bytes to the INSERT of a
  decoded text, synchronously and on one connection `mysql`.
* The **refresh thread** and the receive thread share `g_cache`.
* The **push thread** shares nothing with the receive thread but the table
  `decoded_sms` and the stop event; it opens a connection per pass.
* The **script** is another process. It shares `decoded_sms` with both, and its
  test for a row nobody handled is the push thread's: `send_status = 0`.
* `smset` uses the same kind of modem over the same kind of line but runs on its
  own.

### 1.3 What is hard, and what makes each part correct

| component | hard because | correct when |
|---|---|---|
| line reader | a chunk ends anywhere; the self-check swallows bytes of reports; the buffer may overflow | chunks make no difference; a report is stored once unless its own bytes were thrown away |
| reassembly | parts are repeated, reordered, late; a crash between two statements, any of which may be refused | a stored line feeds one text; what is announced as whole is whole; nothing waits for ever |
| routing cache | a miss is filled row by row while the table may be replaced and freed | no freed table is touched; only real routes are served; stale entries go away |
| push thread | the gateway may take a message whose answer is lost; the UPDATE may fail; the stop event may be closed unseen | in order, at least once, duplicates only for a lost record, stop obeyed |
| script | transaction against autocommit of another process; notices cannot be rolled back | a command takes effect once; its status tells the truth; it is settled |
| PID file | looked at, read, removed and written in separate steps; processes die, ids come back | one instance runs at most unless starts overlap or the probe errs; no start is refused for nothing |
| service shell | the handler and the service's thread share a record and a sign, and each writes while the other reads | a stop ends the process; the end is reported |
| codec and parser | septets cross octets, characters take one to four octets, headers vary in length | what is encoded is what is decoded; a part is known for what it is |
| modem sessions | answers that are not read, or come late, are read by the next call | a text goes to its number; a confirmed send is sent |

The hazards with their lines are the `hazards` list of `PROJECT.json`; each names
the properties that would catch it.

## 2. Plan

Order of work, the most important behaviour first:

1. `Reassembly` — the path every message takes. **Done**, with proofs.
2. `OrderedDelivery` (abstract promise) and `Outbox` (push thread, refines it).
   **Done**, with proofs.
3. `RouteCache` — **done**, with proofs.
4. `RouteSync` — extends `Outbox`, so the script and the push thread are composed
   over one table. **Done**, with proofs.
5. `SingleInstance` — the PID file protocol, and `ScriptInstances`, which composes it
   with `RouteSync`. **Done**, with proofs.
6. `ModemSession`, and `Services`, the two programs as Windows services. **Done**, with
   proofs.
7. `UrcReader` — the bytes before `Reassembly`. **Done**, with proofs.
8. `PduCodec` — `pdu.c`, and `PduParser`, the gateway's decoder on what `pdu.c`
   encodes. **Done**, with proofs.
9. `Gateway`: an abstract end-to-end promise (a received part reaches its
   chatroom) over `Reassembly` and `Outbox`. Planned.
10. `SmsCommand`: `sms_command.c` 112-185. Planned, with low priority: see section 6.

Of the properties the runs check, every safety property is a theorem; what is left to
the model checker is listed at the end of section 5.

## 3. Modules and how they correspond to the code

`map` in `PROJECT.json` gives the lines of every definition. Operators whose name
starts with `Mut` are deliberate errors, written beside the definition they distort
and used by no specification: replacing the definition by one of them must make the
property it is listed with fail. They test the properties.

### Reassembly, MCReassembly, ReassemblyProofs

The receive thread from the stored line on. The thread's steps are cut where it
sends a statement to the database, so a crash (`Crash`) falls between any two. Every
statement may be refused, whatever became of the others; a connection that is lost,
which nothing here opens again, is a run of such refusals.

| model | code |
|---|---|
| `raw`, `decoded` | the tables `raw_sms`, `decoded_sms`; survive a crash |
| `pending[k]` | the `PendingSMS` of (sender, ref_num) `k`: `total_parts`, `arrived_count`, age of `create_time`, the linked list |
| `StoreLine`, `LoseLine` | the INSERT into `raw_sms`, and its failure (1434-1456) |
| `HandleSingle`, `HandleDuplicate`, `HandleNewPart`, `MarkPart`, `MarkSingle` | `handle_sms_frame`, up to and from its UPDATE of `raw_sms` |
| `Route`, `InsertRow`, `EndDispatch` | `dispatch_decoded_sms`, one INSERT per place of the list of targets |
| `StartSweep`, `FlushSlot`, `EndSweep` | `run_garbage_collection`, `flush_incomplete_pending_sms` |

A text is the sequence of the ids of the rows it was made of. What the message
says is left out; which parts make it up, and in which order, is what the
properties are about. What `Route` yields is any list of chatrooms that is not empty and
not longer than `MaxWxid`, and it may name a chatroom twice, as a miss copies every row of the join
(626-631); which lists there are is `RouteCache`'s subject. A row of `decoded` keeps the
place of its target in the list (`left`), which the code does not store, so that
`OneRowPerTarget` can tell the rows of two places from a text dispatched twice. `refused`
records the lines of texts one of whose INSERTs failed. A message has the numbers
`PartNumbers` gives its parts, from 0 to the total: `parse_raw_pdu` rejects a larger
number and not the 0 (1081).

### OrderedDelivery, Outbox, OutboxProofs

`Outbox` is the push thread over `decoded_sms`: a pass is `Connect`, `Scan`,
then for each row a send (`SendAccepted`, `SendRefused`, `SendAnswerLost`) and its
UPDATE (`Mark`, `MarkFails`). `delivered` counts what the chatroom received, which
the code cannot know; `mishaps` counts the deliveries that left no record. `stop` is
`g_hStopEvent`: `ServiceMain` closes it without waiting for the push thread (1730,
`CloseEvent`). A wait for the closed handle fails and the thread makes another pass
(852), so both `Connect` and `ObserveStop` are possible then (a handle may be given
out again); what ends the thread is the end of the process (`EndProcess`).
`OrderedDelivery` is what the queue promises; `Implements` is the refinement, with
`acked` mapped to `sent`.

### RouteCache, RouteCacheProofs

One step per critical section of `g_cache_lock`; the search of a hit is two steps,
as the read lock is held in between. Tables have addresses: `Load` takes any address
that is not in use, so an address freed by `Free` comes back, which is what a
dangling pointer would need to do harm. A miss is filled by one `FillRow` per row,
each under the write lock of its own (632-634). `db` counts the rows of the join that
name a chatroom, as the rows of a tenant are plain INSERTs and may be there twice: the
result of a miss is a list that may repeat a chatroom and is cut at `MaxWxid`, the entry
of the cache is a set (521-523).

### RouteSync

Extends `Outbox` and conjoins its actions with the script's state: `PushMark` is
the thread's UPDATE, which waits for the row locks of an open transaction;
`InsertKind` is its `Insert` with the kind of message. One cycle is `BeginCycle`,
per row `SkipRow` or `FindRoom`, `Apply`, `Notice`, `MarkRow` with the failing
branch of each, then `Commit` or `Abort`. A command may fail with part of its
statements done, of either kind (612, 622), and so may the UPDATE of its status when
everything else is done (`MarkRowFails`): the row then becomes -1 all the same. What the transaction did is kept
in `sync[s]` and reaches the tables with `Commit`; `noticed` does not wait for it,
since HTTP cannot be rolled back. `Syncs` is the set of instances.

### SingleInstance, ScriptInstances, MCScript, ScriptProofs

`SingleInstance` is `ensure_single_instance` and `remove_pid_file` with every access
to the PID file a step of its own: `LookForFile` (`os.path.exists`), `ReadFile`,
`Refuse` or `FindStale` (`os.kill(pid, 0)`), `RemoveFile`, `OpenFile` (which empties
the file), `WriteFile` (the text is in the file when it is closed). `writers` are the
processes that have the present file open: what they write to a file that was removed
meanwhile is nowhere. `Kill` may come at any moment, and `Launch` and `Occupy` give a
free id to a new instance or a foreign program. `FindStale` may happen whatever the
process does: the probe takes every `OSError` for its absence (153), also the
`PermissionError` for a live process of another user and, on Windows, where signal 0 is
CTRL_C_EVENT, the error for one without a console. `history` records what the protocol
cannot cope with: two starts that overlap or a running instance taken for gone
(`"together"`), and an id that the file or a start names being given away (`"reuse"`);
the properties say what holds otherwise. `ScriptInstances` runs the
cycles of `RouteSync` in the processes of `SingleInstance`; a process that dies has
its transaction rolled back.

### ModemSession, ModemSessionProofs

`main.c`'s command lines as sequences of calls, `sms_modem.c`'s "write, then read
until a word or `ERROR` or five seconds of silence", and a modem that answers in
order and has a message prompt. Every word on the line carries the call it
answers, which the code does not see. `troubles` records what the modem did so far; it is
`Orderly` while no answer came after the five seconds, none overflowed the buffer it was
read into (64 bytes for the prompt, 4096 for the rest) and no stored message ended the
listing that contained it with its own `OK` or `ERROR`. Errors of the modem and writes
that fail (`WriteFails`) are not excepted. Of the two implementations of
`sms_modem_open` the POSIX one flushes the line and the Windows one, which the service
loop uses, does not: `Open` may do either. The listings a service loop makes go on after
a failure; every other failure ends the session (`AfterFailure`).

### Services, ServicesProofs

One process per service. `main`, `handler` are where the service's thread and the
control handler stand, `status` is `dwCurrentState` of the record they share, `told`
what `SetServiceStatus` was last called with: writing the record and reporting it are
two steps in each thread, so either may report what the other wrote. `sign` is
`g_hStopEvent` of the gateway (not yet created, clear, set, closed) and `g_running` of
smset. The actions of the thread follow `ServiceMain` and `ServiceWorkLoop`, those of
smset `service_main` and `service_worker_thread`; the work between is `Reassembly`'s,
`UrcReader`'s and `ModemSession`'s. `odd` records what the properties except.

### PduCodec, PduParser, MCPdu, PduCodecProofs

`PduCodec` is one call of `sms_pdu_encode_text` (or `sms_pdu_encode_auto`, which
chooses) and one of `sms_pdu_decode_text` on its result, a character or a septet a
step. GSM 7-bit data is kept as a sequence of bits, least significant first, in which
the shifts of the code are appending and dropping, so that the packing can be reasoned
about; the octets of the other encodings are numbers. Two hexadecimal digits of the
code are an octet of the model. `PduParser` has `parse_raw_pdu` and the two decoders of
the gateway as functions of octets (`Frame`, `TextOf`), and applies them to the user
data that `PduCodec` produced, wrapped by an SMS center modelled from GSM 03.40. `MCPdu`
chooses the inputs.

A message holds 140 octets of user data (`UserData`); both properties of `PduParser` are
about texts that fit, since the length of a longer one has no room in its octet. Senders
have 1 to 31 digits (`NumbersAssumption`): of any other number the gateway keeps UNKNOWN
(951). `Digits` reads all the nibbles and then cuts, where `decode_semi_octet` stops at
the last digit it wants; the digits are the same.

### UrcReader, UrcReaderProofs

The bytes from the driver's queue to `raw_sms`. The line carries tokens, the pieces
the reader can tell apart, with `+CMT:`, the PDU and the line end cut in two so that
a chunk may end inside any of them. `Collect(k)` is one pass of the main loop with
any number of tokens; `StartCheck` and `Skip` are the self-check, which throws away
what it reads. `plain` is a reader of single tokens without a buffer, the reference
`ChunksDoNotMatter` compares with. `dropped` records the reports of which a token was
thrown away, `full` whether the buffer ever overflowed.

## 4. The runs

| run | what it asks | bounds | result |
|---|---|---|---|
| `reassembly_clean` | without faults, is anything lost, used twice, announced wrongly? Does every part get out? | a single message, one of two parts with every part delivered twice, a malformed one and one that does not decode | holds, 251 000 states |
| `reassembly_faults` | does the inductive invariant hold with crashes and refused statements anywhere? What is a complete text, what rows does it leave, what does a part survive? | messages of two and three parts that share a reference, one with a part numbered 0, one message that does not decode; lists of up to two targets | holds, 1 649 000 states |
| `outbox` | order, duplicates, refinement, delivery in the end, stop, also with the event closed | five rows, batches of two, two mishaps per row | holds, 26 000 states |
| `cache` | owned tables, only routes, whole entries, convergence | two ips, two chatrooms, up to two rows each, room for two, two addresses, one change | holds, 639 000 states |
| `sync` | once, truthful, settled | two rows of any kind, one rollback, one mishap | holds, 365 000 states |
| `sync_processed` | is a command whose row is marked executed? | the same, without faults | **violated** |
| `modem` | with an orderly modem: right number, confirmed is sent, answers one behind at most; do sessions end? | three sessions of any kind, two passes of the service loop, all faults | holds, 1 541 000 states |
| `modem_phone` | the right number with a slow modem? | the same | **violated** |
| `urc_reader` | chunks, self-check, overflow | two reports, one self-check, one other thing the modem says, a buffer of eleven tokens | holds, 223 000 states |
| `codec` | do texts survive the codec, and the way from it to the gateway's decoder? | pairs of 17 pieces, texts of up to 17 letters, three encodings and the automatic one, two buffer sizes | holds, 44 000 states |
| `instances` | one instance at a time, one execution of a command, refusals | two process ids, one row, one rollback | holds, 3 330 000 states (up to symmetry) |
| `services` | does a stop end the process, and is the end reported? | both services | holds, 20 000 states |

### Why the bounds are enough

* *Parts and copies.* Two parts already give every position of a new part in the
  list, a duplicate before and after the completion, and a slot opened again by a
  part that is repeated; two messages with one reference put a part between two others
  and mix totals. Two copies are one more than the first; a third behaves as the second.
  The timeout is 0 or 1 tick: what matters is whether a part comes before or after it.
* *Targets.* One chatroom, named up to twice: two places of the list show an INSERT
  that fails before or after one that works, and a crash between them. The proofs hold
  for any chatrooms and any length of the list.
* *Outbox.* Five rows make three batches of two, so a batch that breaks off is
  followed by a full one and a shorter one. Two mishaps repeat a repeated delivery.
* *Cache.* One change of the routes meets every moment of a load, a lookup and a
  fill; `MaxWxid` 2 with two chatrooms of up to two rows each makes results that are cut,
  and results that are cut because of a repeated row. Two addresses are
  what the code can hold at once (the old and the new table), and force reuse.
* *Reassembly, faults.* Neither crashes nor refused statements are bounded, so every
  pattern of them, a connection lost for good among them, is in the run.
* *Sync.* Two rows with a batch limit of two: with one whitelisted row that is no
  command the limit is not reached, with two it is, the condition of
  `CommandsSettle`.
* *Modem.* An answer shifted in one session is consumed in the next; the third
  shows that the shift does not grow. Two listings of the service loop in a row are what
  a second shift within a session would need; the proof is for any number.
* *Codec.* A pair of characters of every kind meets every transition of the loops
  from one kind to another, valid or not; 17 letters are two full groups of eight
  septets and one, with one or two septets at either side of a limit. A buffer of 64
  is large enough for the pairs, one of 7 is full at every point of an octet, a unit
  and a surrogate pair. The sender's number has odd and even length, the header is
  of either width, alone or behind another element, and the cut is at every unit.
* *Instances.* Two ids are enough for every race over the file: an instance and the
  start that meets it, two starts, a stale id that comes back as the start itself or
  as a foreign program. The proofs hold for any number.
* *Services.* Nothing is bounded: stops, questions, retries and restarts repeat.
* *Reader.* A report is ten tokens, so a buffer of eleven holds one report and
  overflows with the second. In the code the buffer is 128 KiB; the cut of lines at
  2047 bytes (1423) and the driver's own queue are not modelled, since no report
  comes near them.

### Fairness

* `Reassembly`: the receive loop never blocks for good and calls the collection in
  every pass (1571-1658), so `Work` is weakly fair; time passes; a dead process is
  started again. The liveness properties are checked without faults.
* `Outbox`: connecting, selecting and posting return within their timeouts, in one
  way or the other, so only the disjunctions (`Scan \/ ScanFails`, ...) are fair:
  `StopIsObeyed` follows from that alone. `EveryRowIsSent` needs a world that
  cooperates, and says so: `WorldIsKind` is its hypothesis, not part of the
  specification. A gateway that refuses a row for ever blocks the younger ones. A process
  whose `ServiceMain` closed the event ends: the dispatcher returns and `main` with it
  (1809-1810). Nothing is assumed of when it closes it.
* `RouteCache`: the refresh thread wakes up again and again and its load works in the
  end. `SF(Swap)` says that the write lock is granted although lookups keep coming:
  the one reader takes the lock for the length of a search, once per dispatched
  text, and is asleep in the serial loop most of the time (1571-1592).
* `RouteSync`: every call of the script has a timeout; nothing is asked of the push
  thread or the gateway. The number of rollbacks is bounded.
* `ModemSession`: the host reads or times out, the modem handles what it received.
  Failing writes and full buffers (`HostFails`) may happen and need not.
* `Services`: each thread goes on, since every call it makes returns (the serial port
  has timeouts, the waits are of five seconds at most), and a process whose dispatcher
  returned ends. Nothing makes the port or the database come back.
* `UrcReader`, `PduCodec`, `ScriptInstances`: only safety is checked.

### What the violations show

1. `sync_processed`: the push thread selects command rows as well (864). It comes
   by every three seconds and the script every sixty, so a command is usually
   forwarded as a message, marked as done and never executed.
2. `modem_phone`: an answer later than five seconds stays for a later call, so a
   prompt opened by an earlier call receives the text of a later one, which goes to
   the earlier number. A stored message whose text contains `OK` or `ERROR` shifts the
   answers in the same way: the listing ends early (193-194) and its own `OK` stays for
   the next call, one answer more with every listing; a listing of more than 4095 bytes
   leaves its rest. `RightNumber` shows that with an orderly modem this cannot be.

### What else the models show

The properties below are stated with exceptions, each of them a behaviour of the code
that a reader should know of. None contradicts something written.

* Slots are found by sender and reference alone (1256): a sender who uses a reference
  again while a slot is open gets a text made of two messages, announced as complete.
  `CompleteIsWhole` says what is left: the parts are of one sender and reference, in the
  order of their numbers, none twice, and as many as one of the messages announces.
* A part numbered 0 passes the parser (1081), and parts 0 and 1 of 2 make a complete text
  without its last part. `CompleteIsWhole` names the number 0 as the one way in which a
  text of a single message may lack a part and not say so.
* An INSERT into `decoded_sms` that is refused, on a lost connection or a live one, loses
  its row for good: the slot is freed and the line marked as done all the same (827-831,
  1245, 1331). `KeptUntilLost` names that among the ways a line may be lost, beside the
  end of the process and user data that does not decode, its own or that of another
  part in its slot. A line whose own INSERT is refused is dropped (1450-1452), and after
  the server has closed the connection, which nothing opens again, all of them are.
* A chatroom is sent a text as often as the list of targets names it, and a list that
  comes from a miss repeats what the tables repeat (626-631), while one that comes from
  the cache does not: the same alert may arrive twice the first time and once later.
* The push thread may sleep while `ServiceMain` closes the stop event. It then makes
  further passes until the process ends (`EndProcess` in `StopIsObeyed`).
* The notices of a cycle that is rolled back went out and go out again
  (`NoticesHaveACause` counts them).
* A command that was executed and announced may end with status -1, when the UPDATE
  that should say 1 is refused (`StatusTells` allows it).
* `sms_modem_send` returns at `+CMGS` and leaves the `OK` behind it on the line, which
  the next call reads as its answer (`OneBehind`). On Windows, where opening the port
  does not flush it, that call may be one of the next session.
* The gateway counts the septets of a 7-bit text, then replaces the count by that of
  its octets (1065), so a text of eight characters or more loses its last eighth
  (`OnlyTheTailIsLost`).
* Eight characters share their septet with another one in `pdu.c` 94-107; a text with
  one of them is decoded to the other (`Ambiguous` in `RoundTrip`).
* Two starts of the script that overlap may both run, and so may an instance and a start
  that took it for gone, because the probe may not signal it (153); then a command may
  take effect twice. A PID file left by a killed process whose id was given to another
  program, or to the new instance itself, makes a start be refused for nothing.
* A service that ends by itself while a stop comes, or a gateway that gets a stop
  before it is running, may report STOP_PENDING last and stay there (`Excuses`).
  `SetEvent` on an event that does not exist yet, and the one record both threads
  write, are the two reasons. smset never reports SERVICE_RUNNING; the model lets a
  stop pass all the same, as its handler accepts one from START_PENDING on.

## 5. What is proved

The theorems hold for every value of the constants allowed by the `ASSUME`s, hence
for any number of messages, parts, rows, ips, chatrooms and faults. The assumptions
say that bounds are natural numbers, that batch and result sizes are positive, that
`KeyOf`, `TotalOf` and `PartNumbers` are functions on the concatenated messages, that
the numbers are at most the total, and that the markers for "none" are not values.

**`ReassemblyProofs`.** `IInv` is type correctness with these parts:

* `Hands` — what the thread holds at each program point: the line in hand is a row,
  the text in hand is the list of the slot in hand. Without it nothing says that
  the slot dispatched is the one freed.
* `SlotsSorted` — the list is strictly increasing and counted right (1281-1302).
* `HandsApart` — the line in hand is in no slot and no text yet, which makes
  `DispatchedOnce` inductive.
* `NoFullSlotWaits`, `CountsRight` — a slot with all its parts is the one in hand;
  so a slot that is flushed lacks a part.
* `RowsAhead` — a text that is about to be dispatched has no row, one whose rows are
  being inserted has none from the places of the list still to come. The INSERTs are not
  one transaction; this is what makes `OneRowPerTarget` survive a crash or a refusal
  between them.
* `ExpiredAreLate` — what the collection found late is still late when it is flushed,
  as no part comes in between.
* `DispatchLands` — a dispatch that is through, before the line is marked or the slot
  freed, has left a row or had an INSERT refused.
* `PartsLegal`, `TotalsAgree` — a slot's total is what one of its parts announces. With
  `SlotsSorted` and `CountsRight` that is the part of `CompleteIsWhole` that holds with
  shared references. For a text of one message without the number 0 the pigeonhole step
  (`SortedFills`: `n` strictly increasing numbers out of `1..n` are `1..n`) gives the rest.

`ReceivedIsOut` rests on one more invariant, `PartsHeld`: without faults a line with
every part that was reported is in hand, in a slot or in a text.

Results: `TypeCorrect`, `SlotsAreSorted`, `NoLineTwice`, `FullSlotsLeave`,
`InductiveInvariant`, `CompleteTextsAreWhole`, `PartialTextsLackAPart`, `OneRowEach`,
`CompleteReportsGetOut`, and the action properties `PartialsAreLate` and
`DoneLinesAreKept`. So every safety property of the two runs is a theorem.

**`OutboxProofs`.** The key is in `Holds`: every row before a row of the batch is in
the batch or delivered. It is established by `ScanIsInitial` (a limited ascending scan
leaves out no smaller row) and kept because a refusal ends the pass. Results:
`InductiveInvariant`, `DuplicatesAreAccountedFor`, `FirstDeliveriesInOrder`, and
`PromiseIsKept`, the refinement of `OrderedDelivery`.

**`RouteCacheProofs`.** `TablesAreOwned` accounts for every allocated table;
`FillIsWhole` says that with no swap in between, the entry and the rows still to come
make up one value of the routes. Results: `InductiveInvariant`,
`OnlyRoutesAreServed`, `WholeEntries`.

**`PduCodecProofs`.** `Packing` says that the data and the bits that wait are the bits
of the septets packed so far, in order (`PackedSoFar`); that the complete data has the
length the decoder computes from their number (`PackedWhole`); and that the decoder
holds the bits between the septets it has seen and the octet it reads next
(`UnpackedSoFar`). The arithmetic of octets and septets and the inverse of `Bits7` are
lemmas of their own. Results: `PackingHolds`, and from it `NoSeptetIsLost`: what is
unpacked is what was packed, and the decoder never refuses the length.

`TextsSurvive` (`RoundTrip`) is about whole characters, of one to four octets on the one
side and one or two septets, or two or four octets, on the other, so that a place in the
text says nothing of the place in the code. Instead of a function computed over the text
the invariant `Aligned` speaks of a set of marks, pairs of a place in the text and one in
the stream of its code (`Linked`): <<1, 1>> is a mark; behind the last one text and
stream end; and every other one has a valid character at its one place, that
character's code at the other, and its successor in the set (`Passed`). The encoder adds
a mark per character (`LinkGrows`); the decoder stands at a mark, or on the escape
behind one, and has written the text before it (`AtMark`). A step of the decoder then
needs four facts about single characters, for every octet and code point: what
`utf8_next` accepts `append_utf8` writes back as it was, with overlong forms and
surrogates out (`CharBack`); the same octets are the same character (`SameChar`); UTF-16
units give their code point back (`UnitsBack`); and so do septets, unless they are
shared (`SeptetsBack`). The set of marks is existentially quantified, so `Aligned`
itself is not among the invariants of a run; `Packing` and `RoundTrip` are.

`TextsReachTheGateway` (`Ucs2Arrives`) and `TailsAreLost` (`OnlyTheTailIsLost`) say what
becomes of the encoder's data at the other program's decoder. They need no invariant of
their own: they follow from `Packing` and `Aligned` in the state in which the encoder has
returned, since `PduParser` is functions only. Those are recursive, over the octets or the
nibbles of one message. What they compute is had from a well-founded order: `Least` gives
a least place of any claim that fails, `Backwards` turns that into an induction from the
end of a text to its beginning, and `Recursion` shows that each of them is defined at every
place by its own equation. The argument then has four parts.

* *The frame.* `FrameRead`: of a message laid out as GSM 03.40 says, with a center's number
  or none, `Frame` finds the number, the coding, the header and the text, whatever their
  lengths. `DigitsBack` gives the number back from its half octets, of odd or even count;
  `HeaderRead` the reference, total and part from each form of the header.
* *UCS-2.* `WideBack` walks the marks of `Aligned` from the last to the first: what `Wide`
  makes of the stream from a mark on is the text from that mark on. The replacement
  character is never reached, since the encoder leaves no half of a pair.
* *Two parts.* The cut need not be at a mark, and the decoder sees the parts only after
  they were joined, so that `CutJoined` is all that is needed.
* *7 bits.* `OctetIs` writes an octet of the packed stream as the sum of its bits,
  `SeptetIs` puts the septet together from one octet or two at each of the eight shifts,
  `SeptetsFound` does so for every septet. With `PlainBack`, that a plain text is its own
  septets, what is left of it is a matter of counting octets.

**`ScriptProofs`.** In three parts, as the model is.

*The cycles beside the push thread*, for one instance of the script (`Alone`); two of
them do announce a command twice and may take a -1 back, which is why the other parts
come in. `Legal` says of a transaction that a row gets one of the two statuses, that
what was executed, announced or torn shows in its status, and that only the row in
hand is in between. `Relied` is what a transaction may count on while the push thread
goes on: a row it holds was settled meanwhile only if it was delivered, and a row it
has yet to announce has no announcement but lost ones. `Settled` is the account of a
row. Outbox's own invariant is of no use here, since the script sets statuses without a
delivery; what is left of it is that the row whose UPDATE is due was delivered.
Results: `SyncInvariant`, `CommandsTakeEffectOnce`, `NoticesAreAccountedFor`,
`StatusIsTruthful`.

*The PID file.* `ExclusiveIInv` says that while no two starts overlapped and the probe
took no running instance for gone, from the moment a start may touch the file nobody
runs, or the file is no longer the one it saw;
`NamesIInv` that an id in the file is that of an instance or of no process. Results:
`OneInstance`, `RefusalsHaveACause`.

*Both.* `ScriptIInv` adds that only a running instance has a transaction
(`TransactionsIInv`) and that a command which took effect has its status and is in no
other transaction (`EffectsIInv`). The step that matters is `BeginCycle`: it selects
no row whose command took effect, because there is no other transaction to hide it.
Results: `ExecutedOnceUnlessTogether`, `OneInstanceAtATime`.

**`ModemSessionProofs`.** None of the three properties is inductive. `SessionIInv` says
that with an orderly modem a session and the modem stand in one of seven ways towards
each other: nobody is there (`Away`); the modem takes the session's commands for a text
of the last one (`Deaf`); between two steps at most one thing of the call before is
pending (`Between`); while an answer is waited for, at most one comes ahead of it
(`Waiting`); then `Prompted`, `Invited` and `Told` for a message. The argument:
an earlier session leaves at most one thing behind, an open prompt with or without its
`>` on the line, a command the modem has not looked at or one word, whether the line is
flushed or not; a session that begins `Deaf` reads no `OK` and is over; and the three commands of `sms_modem_init` come before the first `AT+CMGS`, so
that a send left by an earlier session has been answered, and a prompt is the
session's own. `ProgramShape` says where in a session
`AT`, sends and texts may stand. Results: `SessionsInStep`, `TextsGoToTheirNumber`,
`ConfirmedSendsAreSent`, `AnswersAreOneLate`.

**`UrcReaderProofs`.** `ReaderIInv` has two halves. The first is `ChunksDoNotMatter`
itself: what the reader has stored and holds in `streamBuf` is what the reader of single
tokens has stored and holds. It is kept by a pass because taking the lines out of a
buffer and then out of what came after it is taking them out of both together
(`LinesAfter`, on `LinesOf`). The second, `OnItsWay`, follows each
report of which nothing was thrown away through four stages: `Unread`, `JustBegun`,
`HalfRead`, `StoredOnce`; tokens of other reports and noise leave a report in its stage,
and what a self-check or an overflow throws away either touches it or comes wholly
before or after it. The reader works through its buffer by folds, so the argument is an
induction over sequences: `Least`, from the library's theorem on the well-founded order
of the numbers, gives a first place where the claim fails, and `Induction` and
`SeqInduction` put that as induction on a set. Results: `ReaderTypes`,
`ChunksMakeNoDifference`, `OnlyTouchedReportsAreLost`, `GhostsHaveACause`.

**`ServicesProofs`.** `EndsIInv` has a part per program, as they stop in different
orders. The handler of the gateway has written and reported STOP_PENDING before the
thread learns of the stop (`GatewayEnds`), so the thread's SERVICE_STOPPED comes last.
That of smset sets the sign first (`SmsetEnds`), so its STOP_PENDING may fall between
the thread's write and the thread's report; but it writes once, and the thread reports
twice, so one of the two reports finds what the thread has written. Result:
`EndsAreReported`.

**Model-checked only.** Everything about liveness (`EveryPartGetsOut`,
`EveryRowIsSent`, `StopIsObeyed`, `Converges`, `CommandsSettle`, `SessionsEnd`,
`StopIsHonoured`), which needs fairness and ENABLED and is beyond the prover used. The
runs that are expected to fail show their counterexamples in the model checker only.
That the functions of octets agree with the code is a matter of reading; on the inputs
of `codec` the model checker evaluates them.

## 6. What is not modelled, and why

* `sms_command.c`: no program of the repository calls it. `sms_command_process` is
  sequential, so order and interleaving have no hold on it. Read beside the models it
  shows two things: `insert_chatroom` ignores the result of `mysql_query` and returns
  success (109-111), so SMS_COMMAND_DATABASE_FAILED cannot come from it; and the
  timeout in milliseconds is given to `curl --max-time`, which takes seconds (39-47).
  `jsmn.h` is a vendored library.
* The Windows launcher of the script (`launch_detached_child`) and `--stop`: they
  start and kill a process, which `Launch` and `Kill` have. What `os.kill(pid, 0)` does
  to the process on Windows, where it sends CTRL_C_EVENT, is `Kill` or nothing.
* Installing and removing the services and the console mode: calls of the service
  manager in a row without state of their own. In the console there is no stop event.
* The closed log that the threads which outlive `ServiceMain` may write to until the
  process ends (1729-1731): the outcome is a crash at most, which is `Kill` or `Crash`.
  What the push thread does in that time is in `Outbox`.
* The buffer sizes of `parse_raw_pdu` and the decoders: no SMS fills them.
  The output buffer of `sms_pdu_decode_text` is the caller's choice and taken to be
  large enough: SMS_PDU_NO_SPACE of the decoder (`pdu.c` 290, 405, 456) is left out.
* Configuration, logging, the layout of messages and SQL: input and output, whose
  values are the constants of the modules.
* Memory exhaustion: allocation is taken to work.
