# Verification of the full-stack IoT platform

TLA+ models, TLC runs and TLAPS proofs for the firmware and the server in this
repository. `PROJECT.json` lists the runs, the source lines each definition
models (`map`), the mutants that show that each property can fail, the hazards
and the theorems. File names below are relative to `src/`.

## 1. The system

Two sensor nodes (ESP32) take a reading every 10 seconds and post it as JSON to
a gateway (ESP32), which collects readings in a JSON array and posts the array
to a Django server when it holds 7 of them. Sensors and gateway are set up by a
user over their own access points and web pages.

| Part | Source | State it keeps | Operations | Talks to |
|---|---|---|---|---|
| Gateway aggregation buffer | `gateway/components/web_server/src/web_server.c` from 1898 ("Custom code") | `server_send_json`, `server_send_buffer`, `send_buffer_event_queue` (one event), the flusher's printed text | `init_handlers`, `device_post_handler`, `server_client_task`, `https_post_server` | got-IP event in, sensor requests in, server out |
| Sensor application (two programs, equal but for the reading) | `sensors/*/main/app_main.c` | `sensor_data_queue` (5 pointers), heap readings | `cb_connection_ok`, `sensor_task`, `gateway_client_task`, `http_post_gateway` | callback of the wifi manager in, gateway out |
| Wifi manager of a sensor (two identical copies) | `sensors/*/components/esp32-wifi-manager/src/wifi_manager.c` | queue of 3 messages, event group, retries, `wifi_manager_config_sta`, status JSON, two timers, flash | one `switch` case per message, event handler, timer callbacks, `*_async` requests | driver, timer task, httpd, DNS task, application callback |
| HTTP server of a sensor | `.../http_app.c` | server handle, URLs | GET/POST/DELETE handlers, start, stop | wifi manager's queue and shared configuration |
| DNS server of a sensor | `.../dns_server.c` | task handle | start, stop, answer | started and stopped by the manager |
| NVS store, mutex | `wifi_manager.c` 215-390, `nvs_sync.c` | three blobs, a mutex | save, fetch | flash |
| JSON escaping | `.../json.c` | none | `json_print_string` | status and AP list |
| Gateway web configuration | `web_server.c` 1-1896 | connect status, got-IP flag, timer handle, credentials | POST handlers, status timers, scan filter, URL decoding, OTA | driver, browser |
| Gateway interfaces | `gateway/components/gateway/src/*.c` | list of netifs | add, remove, request IP and MAC, conflict update | netif layer |
| Telemetry server | `server/main/views.py` | devices, time series | `telemetry` | gateway in, SQLite out |
| Web pages, examples, sdkconfig, certificates | various | - | - | - |

How they interact:

    sensor_task -> queue -> gateway_client_task --HTTP--> device_post_handler
      -> server_send_buffer -> server_client_task --HTTPS--> views.telemetry
    driver -> event loop -> wifi manager queue -> manager task
      -> got-IP callback -> cb_connection_ok / init_handlers

What is hard here:

* *Sharing without locks.* The ESP32 has two cores; `server_send_buffer` and the
  tree behind it are used by httpd, by one or more flushers, and by the event
  task. `send_buffer_sem` is created and given but never taken.
* *Reconnections.* Every got-IP event starts everything again - another queue,
  tree, flusher, client, sensor task - while the old ones go on.
* *Blocking sends.* Four tasks send to the wifi manager's queue of 3 and wait
  for room, the manager itself among them, and the manager waits for httpd.
* *Flags against messages.* The event loop sets event-group bits at once, the
  manager acts on the message later.
* *Loss.* A post may fail, or arrive with its answer lost; nothing is retried.
* *Restarts.* The chip may be switched off or abort at any step.

What makes each part correct:

* buffer: an acknowledged reading does not vanish; the server gets each at most
  once and in order; a full buffer is flushed; the flush leaks no tree; no
  access to a freed tree outside the one window the code has;
* sensor: no use of a freed reading by the clients, no leak but on a full or a
  replaced queue, no reading posted twice, a queued reading is posted;
* manager: flags agree with the driver; a node that loses its network gets back,
  by a retry or by its access point; the flash holds only credentials that
  worked; a user's request is answered; no two tasks wait for each other;
* NVS: the flash and the next boot follow the last save that nothing disturbed;
* pages: no handler sends a half-written text or compares with a freed URL on a
  running server, and each one ends;
* web configuration: a result belongs to the attempt it is shown for, an attempt
  does not last for ever, a configured station is not left down;
* interfaces: softAP and router are in different networks, and the softAP does
  not move without need.

## 2. Plan

Most important first.

| # | Module | Models | Composes | Runs, theorems |
|---|---|---|---|---|
| 1 | `GatewayBuffer` | aggregation buffer | - | 3 runs, 4 theorems |
| 2 | `WifiManager` | manager, event loop, timers, httpd, DNS | - | 4 runs, 9 theorems |
| 3 | `SensorTasks` | sensor application | - | 1 run, 5 theorems |
| 4 | `Relay` | abstract: readings arrive, are delivered in order and once, or lost | - | `GatewayBuffer` implements it: checked in `gateway_single`, 3 theorems |
| 5 | `NvsConfig` | save and fetch blob by blob, mutex, failing accesses, power cuts | - | 1 run, 4 theorems |
| 6 | `GatewayNetif`, `GatewayConfig` | interfaces, segments and conflicts; web form, attempt, status timer, start | `GatewayConfig` extends `GatewayNetif` and adds the driver and four tasks | 2 runs, 8 theorems |
| 7 | `ApFilter`, `HttpApp` | the two loops of the access point filter; page handlers, JSON texts and mutex, URLs | `HttpApp` extends `ApFilter` and runs it as part of the manager | 1 run, 5 theorems |

Each module `M` has its theorems in `M_proofs`, the refinement of `Relay` in
`GatewayRelay_proofs`, and the lemmas about sequences that they share are in
`SequenceFacts`. Every invariant and action property that a passing run checks
is stated by a theorem, and so is the refinement. What a liveness property has
of safety is an invariant of its own, and proved. The runs do not repeat it:
they check the liveness property, and a mutant of each module breaks the
invariant and a property of its run alike.

| Liveness, checked by a run | Its safety half, proved |
|---|---|
| `FullEventFlushes` | `QueueIsServed` of `GatewayBuffer`: the queue in use has a flusher |
| `QueuedIsPosted` | `QueueIsServed` of `SensorTasks`: the queue in use has a client |
| `UserIsAnswered` | `NoSilentEnd`: no request is unanswered when nothing is under way |
| `SaveReturns` | `MutexFree`: a save waits for no mutex but one that was kept |
| `StatusSettles` | `ConnectingIsPolled`: an attempt has a timer or a callback that ends it |
| `RequestEnds` | `DeadlockOnlyOnQueue`: handler and manager both wait only on the full queue, never at the mutex |

## 3. The modules

The two sensors share one model: their wifi managers are identical files, their
applications differ in what a reading holds. In `map`, single actions point into
`sensors/humidity_temperature`, and the definitions that put actions together
into tasks point at the same tasks in `sensors/light_intensity`.

### GatewayBuffer

| TLA+ | Code |
|---|---|
| `json`, `buffer`, `queue` | the globals `server_send_json`, `server_send_buffer`, `send_buffer_event_queue` |
| `heap`, `freed` | the trees of `server_send_json` by number of allocation; `heap[o]` lists the readings in the `"data"` array |
| `roots` | the trees that `cJSON_Parse` made of the bodies and nobody deleted yet |
| `slot` | the one event each queue can hold |
| `hpc`, `hitem`, `hevent` | `device_post_handler`: next step, `root`, the event it chose. There is one httpd task |
| `fpc[f]`, `fqueue[f]`, `fbuf[f]` | the `f`-th `server_client_task`: next step, the queue it waits on, `buf` |
| `ipc`, `inits`, `registered` | `init_handlers` in the event task |
| `panicked` | a task touched freed memory and crashed |
| `acked`, `posted`, `delivered`, `late`, `stray`, `nomem` | history only |

One action is one access to a global or to a tree. A request is its number; the
text of a reading, the device name and the HTTP details are abstracted away. A
body that does not parse gives `NULL`, which cJSON does not add. The tree of one
that parses is in `roots` until a flusher deletes the array it was added to.
`device_post_handler` does not delete it when `server_send_buffer` is `NULL`,
and what is added to an array between its deletion and the attachment of the
next one (`stray`) is never deleted either: the code leaks both. Once an attach
has failed the buffer stays `NULL` and no event is sent, so every later request
leaks until the next got-IP. Allocations of cJSON for the flusher can fail
(`OutOfMemory`), so `Create`, `Attach` and `PrintFails` have a second outcome. A
post reaches the server or does not. A task that uses a freed tree either goes
on with what is there (the memory is not reused) or panics, which stops the
model; reuse of freed memory for another object is not modelled. The small
allocation of a queue and of a task is assumed to succeed. `content_len` and the
size of the handler's buffer are left out.

### WifiManager

| TLA+ | Code |
|---|---|
| `queue` | `wifi_manager_queue` |
| `mpc`, `msend`, `retries` | the manager task: at `xQueueReceive`, blocked in a send, or in `httpd_stop` |
| `bits` | `wifi_manager_event_group` (the bits that the code reads) |
| `config`, `nvs`, `status` | `wifi_manager_config_sta`, its copy in flash, the reason code of `ip_info_json` |
| `retryTimer`, `shutdownTimer`, `tsend` | the two one-shot timers, and what the timer task is sending |
| `events`, `esend` | posted driver events, and what the event handler is sending |
| `hsend` | what the httpd handler is sending |
| `sta`, `link`, `scanning`, `ap` | the driver (external): station state, credentials in use, scan, access point |
| `asked`, `impolite`, `reboots` | history and bounds |

A `switch` case of the manager is one action up to the point where it blocks.
The lines in between touch state that only the manager uses, or flags whose
other writer, the event handler, could run before or after with the same effect
on what the case does - except that the configuration may be overwritten by
httpd between the read and the write of a case; the model lets that happen
between the cases. `Reboot` restarts everything but the flash, and so does
`DriverRefuses`: a station that is connecting may refuse a scan, a configuration
or another attempt, and `ESP_ERROR_CHECK` (1020, 1062, 1069) then aborts.
Credentials are model values; those in `GoodCreds` are the ones that the router
accepts. No new request starts while the manager is in `httpd_stop`. Left out:
the list of access points, its JSON mutex, the static IP, the power save and
bandwidth settings (`HttpApp` and `NvsConfig` have the list, the mutex and the
single NVS writes).

A user is *polite* who changes the network when nothing is under way: connects
while the station is down and no retry is pending, disconnects while it is up.
`MaxImpolite` bounds the other changes. Some properties hold for polite users
only, and the run `wifi_stranded` shows what one impolite request does.

### SensorTasks

| TLA+ | Code |
|---|---|
| `queue`, `queues` | the global `sensor_data_queue`, and every queue created so far |
| `cbpc`, `connects` | `cb_connection_ok` |
| `spc[s]`, `shas[s]`, `squeue[s]` | the `s`-th `sensor_task`, its pointer, the queue it is sending to |
| `cpc[c]`, `cqueue[c]`, `chas[c]` | the `c`-th `gateway_client_task`, the queue it waits on, its pointer |
| `freed`, `panicked` | readings given to `free`; a crash in the log line |
| `dropped`, `replaced`, `posted`, `delivered` | history only |

One action is one access to the global or to a reading. `sensor_task` logs the
reading after it sent the pointer, so it may read freed memory: it goes on with
any value, or panics. `xQueueSend` loads the global first, so a connection may
replace the queue between the two. The 10 s delay is left out: a sensor task may
run at any time, which includes the code's timing. Queues, tasks and readings
are assumed to be allocated: `malloc` and `cJSON_Print` without memory would
crash the task, which is a panic that ends the behaviour.

### Relay

What the gateway promises of readings, whatever its buffer looks like: a reading
that arrived is pending, is delivered in the order of arrival and once, or is
lost. `GatewayBuffer` maps its state with `Relayed == INSTANCE Relay WITH
arrived <- requests, pending <- Pending`, where `Pending` are the readings that
the handler is about to add, that are in a live tree, or that a flusher has
printed; `delivered` maps to itself. A flush that reaches the server is
`Deliver`, a deletion without print or a failed post is `Lose`. A delivered
batch is increasing, and older than everything that stays pending. The
refinement holds with one got-IP only: two flushers may overtake each other. It
is checked in `gateway_single` and proved in `GatewayRelay_proofs`.

### NvsConfig

| TLA+ | Code |
|---|---|
| `config` | `wifi_manager_config_sta` and `wifi_settings` |
| `flash`, `durable` | the three blobs as a read returns them, and as of the last `nvs_commit` |
| `held` | `nvs_sync_mutex` |
| `mpc`, `change`, `readError` | `wifi_manager_save_sta_config`: its next access, `change`, and whether `esp_err` is the error of the last read |
| `hpc`, `hreq` | `http_server_post_handler`, which writes the configuration in three steps and no lock |
| `decision`, `attempt` | what the fetch at boot led to; whether a user's credentials are in use |
| `clean`, `saved`, `torn`, `unread`, `leaked` | history only |

A save is one action per access to flash, and each access may fail. The two
returns of the code that keep the mutex (`wifi_manager.c:301`) are an outcome of
`CommitBlobs`. `PowerCut` may come at any step; each blob written since the last
commit is then the old or the new one, which is what NVS guarantees of a single
entry. A save that a POST, a failed access or a power cut has disturbed makes
the flash `torn` until the next undisturbed save; that such a mix is reachable
is a fact about the code (see the hazards), and the properties state what holds
outside it. The settings are one value: the program never changes them.

### GatewayNetif and GatewayConfig

| TLA+ | Code |
|---|---|
| `gateway_link`, `ip` | the list of interfaces in `gateway_common.c`, and the /24 network of each |
| `mpc` | `app_main` |
| `stored`, `link`, `target`, `dhcp` | driver and `esp_netif` (external): configuration, state of the link, its credentials, the DHCP client |
| `events`, `epc` | the event loop, and the event task between the handlers of gateway_wifi.c and web_server.c |
| `flag`, `status`, `conf`, `handle` | `s_sta_got_ip_flag`, `s_wifi_sta_connection_info`, `s_wifi_sta_connect_config`, `s_wifi_sta_connect_timer_handler` |
| `armed`, `count`, `tpc`, `tself`, `tresult` | running timers, `connect_count`, and the timer task in a callback |
| `hpc`, `hret`, `hstate` | httpd in `config_wifi_post_handler` or `config_wifi_get_handler` |
| `posts`, `heard`, `heardOf` | bound and history |

One action is one access to a shared variable or one call of the driver.
Networks are pairs of the first two octets and the third one, because
`segment_is_used` compares the third octet only and `ip4_addr_netcmp` all three.
Some assumptions go beyond the text of the code: a callback of the timer takes
less than the 300 ms that a handler waits before it applies a form; an
association takes longer than `app_main` takes to register its handlers;
`esp_netif` forgets the address of the station when the disconnection is
handled; and the queue of the timer task has room for the start of the status
timer within 5 ticks, since the code ignores the result of `xTimerStart` (1115;
a timer that did not start would leave the status `CONNECTING` for ever).
`esp_wifi_set_config` may fail; `esp_wifi_connect` does nothing unless the link
is down and configured.

The branch for a form without ssid is one action, `ApplyWithoutSsid`:
`StartWebServer` sets the timeout to 10 s, `esp_web_apply_wifi_connect_info`
subtracts the 20 broadcasts of 0.5 s, and `esp_web_start_scan_filter` refuses
the remaining 0 s. Everything behind that refusal is dead code in this program.
`StartWebServer` is one step, although the code starts the server (1887) before
it sets the timeout (1888); a form without ssid that arrives in between, and
would see another timeout, is not covered.

### ApFilter

| TLA+ | Code |
|---|---|
| `records` | `accessp_records`, from the filter to the text; `Cleared` is a slot after `memset` |
| `loop`, `ap`, `ap1` | which loop of `wifi_manager_filter_unique` runs, its slot `aplist[i]`, and the slot `aplist[j]` of the loop inside the first one |
| `first_free`, `total_unique` | the variables of these names |
| `scanned` | what the driver copied there; history only |

One action is one pass through a loop body, or the end of a loop. `Begin` is the
call with a scan, and `FilterUnique` is any step. The two loops are steps and
not recursive functions, so that what they do can be stated as invariants of
loops and proved for lists of every length. The search for the next free slot is
one step, `FirstFree`. The module has no specification of its own: it is a part
of the manager in `HttpApp`.

### HttpApp

| TLA+ | Code |
|---|---|
| `server`, `root`, `others` | `httpd_handle`; `http_root_url` and the other URLs: pointer to a string, or NULL or freed |
| `hpc`, `hkind` | httpd: next step of a handler, and what was requested |
| `mutex`, `apJson`, `ipJson` | `wifi_manager_json_mutex`, `accessp_json`, `ip_info_json`: whole, torn while somebody writes, or unclosed |
| `queue`, `mpc` | the manager's queue and its next step with a message |
| `mpc = "filter"` | the manager is in `wifi_manager_filter_unique` (`ApFilter`) |

The filter runs on every scan of up to `MaxAps` records. The records are chosen
when the manager has the mutex: nobody reads them before, and they are forgotten
with the text. A message of the queue is what it does here: the end of a scan, a
change of the status, the load at the start, start and stop of the access point,
which restart the server, or an order that touches nothing of this module.
Event loop and timers send only when there is room, as far as this module can
tell; handlers (`SendOrder`) and the manager itself (`ManagerSends`, after the
load and after a disconnection) wait for it, the manager for good if the queue
is full. Which messages follow each other is left open. The send after a got-IP
(1300) is not there: the shutdown timer is 60 s, never 0. The string of the
station's address has its own mutex, held for a copy or a `strstr` and for
nothing else; it is left out.

## 4. Runs

The cfgs of the first eight runs and of `http_app` say `CHECK_DEADLOCK FALSE`:
requests, readings and got-IP events are bounded, so the models stop when they
are used up, and a panic or a blocked manager stops the code itself.

| Run | Bounds | Checks | Shows |
|---|---|---|---|
| `gateway_single` | buffer 2, 4 requests, 1 got-IP, 1 failed allocation | `OnlyStrayRootsLeak`, `DeliveredInOrder`, `FullEventFlushes`, `ImplementsRelay` | without reconnections the flush leaks none of its trees, and of the requests' only those it was too early or too late for; it is ordered, at most once, answers every full event in the queue, and implements `Relay` |
| `gateway_reconnect` | the same with 2 got-IPs | `TypeOK`, `AccountedFor`, `DanglingOnlyWhileReplacing` | where every acknowledged reading can be, whatever handlers, flushers and re-initialisation do |
| `gateway_emptied` | as `gateway_single` | `EmptiedIsFlushed` violated | readings added between print and delete are acknowledged and lost |
| `wifi_safety` | queue 3, 1 retry, 1 pending driver event, 2 credentials (1 good), 1 restart, 1 impolite change | eight invariants | flags follow the driver, the scan bit clears, the node keeps a way back, the flash holds verified and current credentials |
| `wifi_live` | no restart, polite | `ReachableAgain`, `UserIsAnswered`, `ApShutsDown` | progress, unless the manager is blocked for good |
| `wifi_stranded` | 1 impolite change | `Recoverable` violated | a connect request while connected leaves a stale flag; a later loss strands the node |
| `wifi_blocked` | 1 credential, polite | `RequestIsProcessed` violated | manager and httpd wait for each other |
| `sensor_reconnect` | queue 2, 3 readings, 2 got-IPs | `TypeOK`, `HeldIsLive`, `LeakOnlyFullOrReplaced`, `DeliveredOnce`, `QueuedIsPosted` | ownership of readings and progress across a reconnection |
| `nvs_config` | 2 ssids, 2 passwords; saves, posts and power cuts unbounded | `TypeOK`, `FlashIsSaved`, `BootFollowsSaved`, `SaveReturns` | flash and the next boot follow the last undisturbed save; a save ends |
| `gateway_config` | segments 4-6, 3 networks, 2 credentials (1 good), 3 forms, 3 waiting events, 3 polls | eight properties | timer and handle match, a result rests on an address got since, the station comes back, the softAP leaves its network when and only when it must, answers agree, attempts settle |
| `gateway_appointed` | the same | `OkMeansAppointed` violated | success is reported for credentials that were never tried |
| `http_app` | 1 ssid, 2 authmodes, 2 rssis, scans of up to 3 records, queue 1 | `TypeOK`, `NoTornAnswer`, `UrlsWhole`, `ListIsUnique`, `RequestEnds` | whole texts and URLs, a correct list for each of the 156 scans, handlers that end unless the queue is full and the manager in `httpd_stop` or sending to itself, with restarts in between |

Why the bounds are enough to be interesting: with buffer size 2, four requests
fill the buffer, arrive during a flush and fill it again; a second got-IP gives
two flushers and a tree replaced under both. The queue of the wifi manager has
its real length, 3; one retry separates "below" from "at the threshold". One
pending driver event makes the driver wait for the event loop; a longer event
queue only lets it run further ahead of flags that the loop sets in the same
order. In `SensorTasks` a queue of 2 with 3 readings is full, empty and in
between, and two connections give two tasks of each kind.

`NvsConfig` has no bound but the sets of strings: two of each give every mix.
In `GatewayConfig` three forms let an attempt follow one that was given up and
one that is under way; three polls are one that fails, one that hears and the
last; the third network has the third octet of the first segment and different
first ones. In `http_app` three records give a gap before, between and after,
and two gaps; one ssid with two authmodes makes two networks. The invariant of
the proofs was also checked with two ssids (820 scans); the theorem covers the
rest. The queue of 1 is full or empty, which is all that its senders see.

`MaxReboots` and `MaxImpolite` are 0 in the liveness run because they would only
add finite prefixes; a restart leads to the initial state with another flash,
and every content that polite users can leave there is an initial state
(`SavedIsVerified`).

### Fairness

* Each FreeRTOS task that can run does: weak fairness of each task (flushers,
  handler and `init_handlers`; clients and sensor tasks; manager and event
  loop). The tasks have fixed priorities, but each one blocks or delays in
  every round of its loop, and there are two cores.
* A started one-shot timer expires: weak fairness of `RetryExpires` and
  `ShutdownExpires`.
* A task that waits for room in a queue is woken when room appears: strong
  fairness of `EventSends`, `HttpSends`, `TimerSends`. A weaker assumption would
  let the others fill the queue each time first, which FreeRTOS' ordered list of
  waiting tasks prevents.
* A driver that is connecting succeeds or fails, and a scan ends: strong
  fairness of those two, since each needs room for its event.
* In `HttpApp`, manager and httpd give way to each other at the mutex: they have
  the same priority, and the mutex is held for a bounded time (strong fairness
  of `LockJson`); a handler that waits for room in the queue finds it in the end
  (strong fairness of `SendOrder`).
* In `GatewayConfig`, httpd, the event task and the timer task run, and a
  running auto-reload timer fires. No router need answer.
* Nothing is assumed of requests, got-IP events, lost links, failed allocations,
  users or restarts (an abort by `DriverRefuses` included). Panics are excluded
  from the fair steps, so nothing depends on one.

### The exemption `Stuck`

`ReachableAgain`, `UserIsAnswered` and `ApShutsDown` allow one way out, `Stuck`:
the queue is full and its only reader is itself sending or waits for an httpd
handler that is sending. `Stuck` is permanent, and the run `wifi_blocked` shows
that it is reachable. The three properties say that nothing else stops progress.

## 5. Findings

1. `gateway_emptied`: `README.md:46` says the task "empties out the buffer and
   flushes the JSON array". It prints (2078) and deletes (2081) in two steps
   with no lock, and a reading added in between was answered with 200 and is
   gone.
2. `wifi_stranded`: a `POST /connect.json` while connected sets
   `REQUEST_STA_CONNECT` though no attempt is made (`wifi_manager.c:1053`,
   1060). A later loss of the link is taken for a failed attempt (1142): no
   retry timer, no access point, contrary to `wifi_manager.h:73`.
3. `wifi_blocked`: with 3 messages waiting, `httpd_stop` in `WM_ORDER_START_AP`
   (1217) or `WM_ORDER_STOP_AP` (1246) waits for a handler that waits for the
   manager to read its queue. `wifi_manager.h:324` and 329 promise that requests
   are processed.

4. `gateway_appointed`: `esp_web_apply_wifi_connect_info` clears the got-IP flag
   (`web_server.c:1088`) and stores the new credentials (231) before it closes
   the old link (233). An address that the old router gives at that moment sets
   the flag, and the first poll reports `CONNECT_OK` for the new credentials,
   although the comment at 951 says that the poll checks whether the station
   "has connnected to appointed ap".

Not counted as findings, since no document promises otherwise, but reachable in
the models: a POST that falls into a save or between a disconnect and its save
leaves a mixed configuration in flash (`NvsConfig`, `torn`); an empty scan
leaves the text `[`, which is no JSON (`HttpApp`, `"unclosed"`); a handler that
runs while `http_app_stop` frees the URLs may crash (`CompareFreed`); a request
that comes while the gateway has no array or is replacing it leaks its parsed
tree (`stray`, `nomem`), and so do readings left in a queue that another
connection replaced (`replaced`); a read
error of the last blob or a failed commit keeps the NVS mutex for good
(`leaked`); and the softAP moves away from 192.168.4.1, the fixed address in
the sensors, when the router uses 192.168.4.0/24 (`SoftapStays` says that it
moves for no other reason).

## 6. Proofs

The theorems hold for every value of the constants that the named assumptions
allow. The assumptions say that bounds are naturals (that of a queue or of the
buffer not 0, a status timer that polls at least twice, a softAP with at least
two segments to choose from; the code has 4 to 254), that good credentials are
credentials, and that values which the code tells apart differ: `Blank`,
`NotFound`, `NoCred`, `NoSsid` and `Hidden` from what a user can enter or a
router can send, and in `NvsConfig` the default settings from a blob that is
blank or not there (`SettingsAssumption`). Every theorem `Spec => []P` has an
inductive invariant that implies `P`; TLC checked each one on the bounds of the
module's run (`LeakInv` on those of `gateway_reconnect`, `RelayInv` on
`gateway_single`) before it was proved. (TLC also checked the six safety halves
of section 2 on the run of their module.) A step lemma has one case per action.
What `ToSet`, injectivity and order do under append, tail and concatenation is
in `SequenceFacts`; its `Covered(x, y, s)` says that behind each `x` in a queue
there is a `y`, the form in which a later message takes back an earlier one.

**`GatewayBuffer_proofs`**, for any number of got-IP events.

* `TypeCorrect`: `Spec => []TypeOK`. `TypeOK` is inductive: the indices of trees
  and queues are those allocated so far, and `heap` and `slot` only grow.
* `DanglingCorrect`: `Spec => []DanglingOnlyWhileReplacing`. The property alone
  is not inductive: a flusher that reaches its delete must be known to move to
  `create` with the tree it deletes, and an init that attaches an array must
  attach one that is live. `DanglingInv` adds `NotStarted` (a flusher that no
  init has started is off) and `JsonDangling` (when `server_send_json` is freed
  some flusher is between delete and create); the flusher that makes the pointer
  dangle is the witness until it attaches the new array.
* `AccountCorrect`: `Spec => []AccountedFor`. A reading leaves the heap only by
  a delete, so `AccountInv` must know that what a flusher is about to delete has
  been printed into its `buf`, or was added too late, or lost
  (`DeletedIsPrinted`), that a `buf` is not dropped before it is posted
  (`BufUsed`), and that the reading is accounted for from the moment it is
  added, before the answer is sent (`AddedAccountedFor`).
* `ServedCorrect`: `Spec => []QueueIsServed`, from `FlusherServes`: the flusher
  of the last `init_handlers` waits at no older queue.

**`GatewayRelay_proofs`**, until a second got-IP event.

* `LeakCorrect`: `Spec => [](inits <= 1 => OnlyStrayRootsLeak)`, for every
  `MaxInits`. `LeakInv` adds that a flusher at `create` has deleted every tree
  there is; `RootsOwned` and `BufferThere` that no step loses sight of a root,
  and that the handler finds an array as long as no allocation has failed. With
  one init there is one flusher (`OneFlusher`); with two it is false.
* `RelayCorrect`: `Spec => ImplementsRelay` for `MaxInits = 1`, the bound of the
  run `gateway_single`. The mapping is `Pending`, the readings with the handler,
  in a live tree or in a printed text. `RelayStep` shows that `RecvAndParse` and
  `RecvFails` are `Arrive`, a post that reaches the server is `Deliver`, and any
  other step can only shrink `Pending`, which is `Lose` or nothing. `Deliver`
  asks for an increasing batch older than all that is still pending, so
  `RelayInv` knows that trees and texts are increasing (`Sorted`), hold nothing
  that the handler has still to add (`ReadingsSeen`), and that a text is older
  than what is in the tree that replaces its own (`PrintedFirst`).
* `OrderCorrect`: `Spec => []DeliveredInOrder` for `MaxInits = 1`. It is proved
  of `Relay` (what was delivered is older than what is pending) and carried over
  by the refinement, without looking at the gateway again.

**`SensorTasks_proofs`**, for any number of connections, each with its own queue
and tasks. `OwnerInv` says that every reading ever made is in exactly one place:
waiting once in one queue, with a sensor task that is about to send it, with one
client, freed, or dropped; and that a reading which the gateway has is freed or
with the client that posted it. `HeldCorrect`, `LeakCorrect` and
`DeliveredCorrect` read off `HeldIsLive`, `LeakOnlyFullOrReplaced` and
`DeliveredOnce`. For the second one `ReplacedInv` says that what waits in a
queue other than the one in use, or is being sent to one, is among `replaced`.
`TypeCorrect` needs that a task waits at a queue that exists, which rests on the
order of the steps of `cb_connection_ok` (`TypeInv`). `ServedCorrect` (`Spec =>
[]QueueIsServed`) is about the client of the last connection: it never waits at
an older queue (`ClientServes`), though the others may.

**`NvsConfig_proofs`**.

* `TypeCorrect`: no fetch copies a blob that is not there.
* `FlashCorrect`: `Spec => []FlashIsSaved`. A save skips the blobs that it
  finds unchanged, and commits only if it wrote one. So `FlashInv` follows it
  access by access: the blobs that an undisturbed save has behind it are as
  configured (`CleanIsWritten`), flash is the last save as long as the one under
  way has written nothing (`UntouchedHoldsSaved`), and no ssid can be saved with
  a password that was never stored (`RequestWhole`, `PasswordStored`).
* `BootCorrect`: `Spec => BootFollowsSaved`, an action property, from `FlashInv`
  and what is the case before a fetch (`BootState`).
* `MutexCorrect`: `Spec => []MutexFree`. `MutexInv` says that the mutex is held
  within a save, and otherwise only by one that returned with it.

**`GatewayConfig_proofs`**. `ConfigInv` has six parts: `TypeInv` (types, the
order of the start), `TimerInv` (a running timer is the one the handle names and
the status is `CONNECTING`, which keeps the next form out until the callback has
published; after that it ends within the handler's delay), `ResultInv` (a set
flag, a result under way and a published one rest on an address since the
attempt began), `AnswerInv` (the first half of an answer is still true),
`StationComesBack` itself, which is inductive on `TypeInv`, and `ConflictKnown`
(a conflict of networks is announced by an event that still waits). From it
follow `TypeCorrect`, `TimerCorrect`, `ResultCorrect`, `StationCorrect`,
`ApartCorrect`, `PollCorrect` and the action properties `StaysCorrect` and
`AnswerCorrect`. The choice of a segment is a lemma, `RequestedIsFree`: with at
most one segment used there is a lowest free one, it is one of the softAP's, and
not the used one.

**`HttpApp_proofs`**, for any length of the queue and of a scan.

* `AnswerCorrect` from `MutexInv`: each side has the mutex in its critical
  section only, and a torn text is torn by the one inside.
* `DeadlockCorrect`: `Spec => []DeadlockOnlyOnQueue`, from `MutexInv` too: who
  has the mutex waits for nothing, so only the full queue is left, with the
  manager in `httpd_stop` or at a send of its own.
* `UrlsCorrect` from `ServerInv`: stop and start are not called without reason,
  and URLs are there whenever a server runs.
* `ListCorrect`: `Spec => []ListIsUnique`. `Merging` is the invariant of the
  first loop: a slot that is not cleared still has the network that was scanned
  there, each network scanned is listed no later than there with its best rssi
  so far, and no pair that was compared is alike. When the loop ends each
  network is in the slot where it was seen first (`EndsMerge`), which is why the
  order is that of first sight. `Packing` is the invariant of the second loop:
  there is one gap before `ap`, from `first_free` on, and `total_unique` has
  been reduced by its length; a record that moves to the start of the gap moves
  the gap by one (`MovesForward`), so the search for the next free slot finds
  the slot behind it. When that loop ends, what is before the gap is the list.
* `TypeCorrect`: `Spec => []TypeOK`, from `FilterRuns` (the filter runs from the
  lock of the list to the text, with indices inside it), `ServerInv` and
  `TypeInv` for the rest.

**`WifiManager_proofs`**.

* `TypeCorrect`: `Spec => []TypeOK`, one case for every message of the manager.
* `BitsCorrect` and `ScanCorrect`, whatever users do: `DriverInv` says that the
  last event posted about the station, and about the access point, is what the
  driver did last (by `Covered`), that a bit which no event is about to change
  is right already, and that a marked scan has its end under way.
* `RecoverableCorrect`, `VerifiedCorrect`, `SavedCorrect`, `DnsCorrect` and
  `RequestCorrect`, while users are polite - as the properties themselves say,
  and as `wifi_stranded` shows they must. `PoliteInv` is `Polite => WorkInv`.
  The centre of `WorkInv` is `OneWork`: connecting, the loss, the retry timer
  and the order to connect are one piece of work that driver, event loop, queue
  and timer pass on, and there is never a second one. Around it: with no work
  the access point is offered (`IdleIsOffered`); the shutdown timer runs for a
  connection only and never against a user's order (`ShutdownJustified`,
  `UserKeepsAp`); the request bits last as long as the outcome is open
  (`MarksUndecided`); the first attempt is over before a user orders anything
  (`StartOver`); the shared configuration is that of the attempt
  (`ConfigFollowed`); news of an address overtakes none of a loss
  (`AddressFirst`), and no start of the access point is behind the news that
  stops the DNS server (`DnsFollowed`).
* `AnswerCorrect`: `Spec => []NoSilentEnd`. `AnswerOpen`, inductive by itself,
  says that a request without an answer is with httpd, in the queue, or marked
  by `REQUEST_STA_CONNECT`; a mark that outlives its attempt is what
  `RequestCorrect` excludes.

What stays with TLC:

* the liveness properties (`FullEventFlushes`, `QueuedIsPosted`, `SaveReturns`,
  `ReachableAgain`, `UserIsAnswered`, `ApShutsDown`, `RequestEnds` and those of
  `GatewayConfig`): they rest on fairness and `ENABLED`, which the prover does
  not handle; of six of them the safety half is proved (the table in section 2);
* the four runs that expect a violation.

## 7. Not modelled, and why

* Web pages, examples, certificates, build settings: no state of the system.
* `_http_event_handler` (both programs): it collects an answer that nobody
  reads. Its static buffer is shared when two clients run; the bytes it holds
  do not reach any state modelled here.
* OTA update and flash layout of the gateway: I/O against vendor libraries.
* The scan filter of the gateway (`esp_web_start_scan_filter` and what it uses):
  it is called with 0 s and refuses, as described under `GatewayConfig`.
* `list_remove`, `create_netif`, `create_all_netif`, `request_mac` of the
  gateway, `wifi_manager_destroy`, `nvs_sync_free`: nothing calls them.
  LiteMesh, the FAT file system and the captive portal of the gateway are not
  built in.
* Text: URL decoding, `esp_web_find_arg`, `json_print_string`, the DNS packets.
  Forms and headers are model values; what is cut off or escaped in them
  changes no state that the properties are about.
* `simulate_rand_sensor`: floating point.
* The telemetry server: sequential Python over a database. To the gateway it is
  a server that takes a batch, refuses it, or whose answer is lost.
