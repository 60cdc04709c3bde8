----------------------------- MODULE WsGateway -----------------------------
(***************************************************************************)
(* The WebSocket gateway of one API replica, apps/api/fx_api: the pub/sub  *)
(* router and snapshots of ws/manager.py, the conflating session of        *)
(* ws/conflator.py, and the reader and writer tasks of routers/stream.py,  *)
(* between the ingestor's Redis writes and what the browser shows          *)
(* (apps/web, store.ts and useForexStream.ts).                             *)
(*                                                                         *)
(* A conflated channel (a symbol's prices, or the feed status) carries     *)
(* versions 1, 2, ...; 0 is nothing yet.  Transitions are <<symbol, seq>>. *)
(* The replica is one asyncio thread: what lies between two awaits is one  *)
(* step, and a task that never awaits stops every other one (`hog`).       *)
(***************************************************************************)
EXTENDS Integers, Sequences, FiniteSets

CONSTANTS Client, NoOne,
          Symbol,
          Status,          \* the status channel, which everyone wants
          MaxTicks,        \* bound: versions per channel
          MaxAlerts,       \* bound: transitions per symbol
          MaxSubscribes,   \* bound: subscribe ops per connection
          MaxUnsubscribes, \* bound: unsubscribe ops
          MaxStalls,       \* bound: sockets that stop taking data
          MaxOutages,      \* bound: losses of the pub/sub connection
          MaxDisconnects   \* bound: clients that go away

ASSUME GatewayAssumption ==
    /\ NoOne \notin Client /\ Status \notin Symbol
    /\ MaxTicks \in Nat /\ MaxAlerts \in Nat
    /\ MaxSubscribes \in Nat /\ MaxUnsubscribes \in Nat
    /\ MaxStalls \in Nat /\ MaxOutages \in Nat /\ MaxDisconnects \in Nat

Channel == Symbol \cup {Status}
Alert   == Symbol \X (1..MaxAlerts)

VARIABLES
    price,     \* Redis: q:{SYMBOL}, and the stored feed status
    alerts,    \* Redis: transitions published per symbol
    wire,      \* pub/sub messages on their way to this replica
    linked,    \* the pub/sub connection is up
    feed,      \* ConnectionManager.feed_status
    hog,       \* the client whose writer does not yield, or NoOne
    life,      \* "off", "open", or "closed": session.closed is set
    symbols,   \* ClientSession.symbols
    pending,   \* ClientSession.pending, conflated part: version or 0
    events,    \* ClientSession.pending, alert part
    wakeup,    \* ClientSession.wakeup.is_set()
    lock,      \* who holds send_lock
    writer, batch, news,   \* the writer task, and the frames it is sending
    reader, asked, snap,   \* the reader task, its subscribe op, its snapshot
    stuck,     \* the socket takes no data
    shown,     \* the browser: the version it shows
    told,      \* the browser: transitions it was sent
    owed,      \* history: transitions queued for the open session
    subscribes, unsubscribes, stalls, outages, disconnects

redis    == <<price, alerts, wire, linked>>
queue    == <<symbols, pending, events, wakeup>>
tasks    == <<lock, writer, batch, news, reader, asked, snap>>
browser  == <<shown, told, owed>>
budgets  == <<subscribes, unsubscribes, stalls, outages, disconnects>>
vars     == <<redis, feed, hog, life, queue, tasks, stuck, browser, budgets>>

Nothing == [ch \in Channel |-> 0]

Init ==
    /\ price = Nothing /\ alerts = [s \in Symbol |-> 0]
    /\ wire = <<>> /\ linked = TRUE /\ feed = 0 /\ hog = NoOne
    /\ life = [c \in Client |-> "off"]
    /\ symbols = [c \in Client |-> {}]
    /\ pending = [c \in Client |-> Nothing]
    /\ events = [c \in Client |-> {}]
    /\ wakeup = [c \in Client |-> FALSE]
    /\ lock = [c \in Client |-> "free"]
    /\ writer = [c \in Client |-> "gone"]
    /\ batch = [c \in Client |-> Nothing]
    /\ news = [c \in Client |-> {}]
    /\ reader = [c \in Client |-> "gone"]
    /\ asked = [c \in Client |-> {}]
    /\ snap = [c \in Client |-> Nothing]
    /\ stuck = [c \in Client |-> FALSE]
    /\ shown = [c \in Client |-> Nothing]
    /\ told = [c \in Client |-> {}]
    /\ owed = [c \in Client |-> {}]
    /\ subscribes = [c \in Client |-> 0]
    /\ unsubscribes = 0 /\ stalls = 0 /\ outages = 0 /\ disconnects = 0

(* The event loop gets to run other tasks.                                 *)
Yields == hog = NoOne

---------------------------------------------------------------------------
(* The ingestor's MULTI: store, and publish to whoever is connected.       *)

Send(msg) == wire' = IF linked THEN Append(wire, msg) ELSE wire

PublishTick(ch) ==
    /\ price[ch] < MaxTicks
    /\ price' = [price EXCEPT ![ch] = @ + 1]
    /\ Send([kind |-> "value", ch |-> ch, v |-> price[ch] + 1])
    /\ UNCHANGED <<alerts, linked, feed, hog, life, queue, tasks, stuck, browser, budgets>>

PublishAlert(s) ==
    /\ alerts[s] < MaxAlerts
    /\ alerts' = [alerts EXCEPT ![s] = @ + 1]
    /\ Send([kind |-> "alert", ch |-> s, v |-> alerts[s] + 1])
    /\ UNCHANGED <<price, linked, feed, hog, life, queue, tasks, stuck, browser, budgets>>

(* listen() ends with an error; what is published meanwhile is lost.       *)
Outage ==
    /\ linked /\ outages < MaxOutages
    /\ outages' = outages + 1
    /\ linked' = FALSE
    /\ wire' = <<>>
    /\ UNCHANGED <<price, alerts, feed, hog, life, queue, tasks, stuck, browser,
                   subscribes, unsubscribes, stalls, disconnects>>

(* _router's loop listens again.                                           *)
Relink ==
    /\ ~linked /\ Yields
    /\ linked' = TRUE
    /\ UNCHANGED <<price, alerts, wire, feed, hog, life, queue, tasks, stuck, browser, budgets>>

---------------------------------------------------------------------------
(* _dispatch and ClientSession.offer.                                      *)

Wants(c, ch) == life[c] = "open" /\ (ch = Status \/ ch \in symbols[c])

(* Mutated: alerts keyed by symbol only, so a newer one takes the slot.    *)
QueueAlertConflated(c, a) == {b \in events[c] : b[1] # a[1]} \cup {a}

(* alert:{symbol}:{seq}: a slot of its own.                                *)
QueueAlert(c, a) == events[c] \cup {a}

Dispatch ==
    /\ Yields /\ wire # <<>>
    /\ LET msg == Head(wire)
           for == {c \in Client : Wants(c, msg.ch)}
           a   == <<msg.ch, msg.v>>
       IN /\ feed' = IF msg.ch = Status THEN msg.v ELSE feed
          /\ wakeup' = [c \in Client |-> wakeup[c] \/ c \in for]
          /\ \/ /\ msg.kind = "value"
                /\ pending' = [c \in Client |-> IF c \in for
                                 THEN [pending[c] EXCEPT ![msg.ch] = msg.v] ELSE pending[c]]
                /\ UNCHANGED <<events, owed>>
             \/ /\ msg.kind = "alert"
                /\ events' = [c \in Client |-> IF c \in for THEN QueueAlert(c, a) ELSE events[c]]
                /\ owed' = [c \in Client |-> IF c \in for THEN owed[c] \cup {a} ELSE owed[c]]
                /\ UNCHANGED pending
    /\ wire' = Tail(wire)
    /\ UNCHANGED <<price, alerts, linked, hog, life, symbols, tasks, stuck, shown, told, budgets>>

---------------------------------------------------------------------------
(* A connection.                                                           *)

(* accept, register, hello with the cached feed status.                    *)
Open(c) ==
    /\ Yields /\ life[c] = "off" /\ reader[c] = "gone"
    /\ life' = [life EXCEPT ![c] = "open"]
    /\ symbols' = [symbols EXCEPT ![c] = {}]
    /\ pending' = [pending EXCEPT ![c] = Nothing]
    /\ events' = [events EXCEPT ![c] = {}]
    /\ wakeup' = [wakeup EXCEPT ![c] = FALSE]
    /\ lock' = [lock EXCEPT ![c] = "free"]
    /\ writer' = [writer EXCEPT ![c] = "wait"]
    /\ reader' = [reader EXCEPT ![c] = "receive"]
    /\ stuck' = [stuck EXCEPT ![c] = FALSE]
    /\ shown' = [shown EXCEPT ![c][Status] = feed]
    /\ owed' = [owed EXCEPT ![c] = {}]
    /\ subscribes' = [subscribes EXCEPT ![c] = 0]
    /\ UNCHANGED <<redis, feed, hog, batch, news, asked, snap, told,
                   unsubscribes, stalls, outages, disconnects>>

(* The finally of stream(): close, cancel the writer, unregister.          *)
EndSession(c) ==
    /\ life' = [life EXCEPT ![c] = "off"]
    /\ writer' = [writer EXCEPT ![c] = "gone"]
    /\ reader' = [reader EXCEPT ![c] = "gone"]
    /\ lock' = [lock EXCEPT ![c] = "free"]
    /\ UNCHANGED <<redis, feed, hog, queue, batch, news, asked, snap, stuck, browser>>

(* The client goes away: WebSocketDisconnect.                              *)
Disconnect(c) ==
    /\ Yields /\ reader[c] \in {"receive", "send"}
    /\ disconnects < MaxDisconnects
    /\ disconnects' = disconnects + 1
    /\ EndSession(c)
    /\ UNCHANGED <<subscribes, unsubscribes, stalls, outages>>

(* The socket the writer closed: the reader's receive fails.               *)
ReaderHearsClose(c) ==
    /\ Yields /\ life[c] = "closed" /\ reader[c] = "receive"
    /\ EndSession(c)
    /\ UNCHANGED budgets

(* The browser or the path to it stops taking data.                        *)
Stall(c) ==
    /\ life[c] = "open" /\ ~stuck[c]
    /\ stalls < MaxStalls
    /\ stalls' = stalls + 1
    /\ stuck' = [stuck EXCEPT ![c] = TRUE]
    /\ UNCHANGED <<redis, feed, hog, life, queue, tasks, browser,
                   subscribes, unsubscribes, outages, disconnects>>

(* And takes it again.                                                     *)
Recover(c) ==
    /\ stuck[c]
    /\ stuck' = [stuck EXCEPT ![c] = FALSE]
    /\ UNCHANGED <<redis, feed, hog, life, queue, tasks, browser, budgets>>

---------------------------------------------------------------------------
(* The reader task.                                                        *)

(* {"op": "subscribe"}: wait for send_lock.                                *)
Subscribe(c, syms) ==
    /\ Yields /\ life[c] = "open" /\ reader[c] = "receive"
    /\ subscribes[c] < MaxSubscribes
    /\ subscribes' = [subscribes EXCEPT ![c] = @ + 1]
    /\ asked' = [asked EXCEPT ![c] = syms]
    /\ reader' = [reader EXCEPT ![c] = "lock"]
    /\ UNCHANGED <<redis, feed, hog, life, queue, lock, writer, batch, news, snap, stuck,
                   browser, unsubscribes, stalls, outages, disconnects>>

(* Mutated: the snapshot is taken without send_lock.                       *)
StartSnapshotUnlocked(c) ==
    /\ Yields /\ reader[c] = "lock"
    /\ symbols' = [symbols EXCEPT ![c] = @ \cup asked[c]]
    /\ reader' = [reader EXCEPT ![c] = "read"]
    /\ UNCHANGED <<redis, feed, hog, life, pending, events, wakeup, lock, writer, batch, news,
                   asked, snap, stuck, browser, budgets>>

(* Under the lock: session.subscribe, then the request to Redis.           *)
StartSnapshot(c) ==
    /\ Yields /\ reader[c] = "lock" /\ lock[c] = "free"
    /\ lock' = [lock EXCEPT ![c] = "reader"]
    /\ symbols' = [symbols EXCEPT ![c] = @ \cup asked[c]]
    /\ reader' = [reader EXCEPT ![c] = "read"]
    /\ UNCHANGED <<redis, feed, hog, life, pending, events, wakeup, writer, batch, news,
                   asked, snap, stuck, browser, budgets>>

(* Redis answers the pipeline of manager.snapshot.                         *)
ReadSnapshot(c) ==
    /\ Yields /\ reader[c] = "read"
    /\ snap' = [snap EXCEPT ![c] = [ch \in Channel |->
                    IF ch \in asked[c] THEN price[ch] ELSE 0]]
    /\ reader' = [reader EXCEPT ![c] = "send"]
    /\ UNCHANGED <<redis, feed, hog, life, queue, lock, writer, batch, news, asked, stuck,
                   browser, budgets>>

(* A frame takes the place of what the browser showed; 0 is no frame.      *)
Painted(c, frames) ==
    [shown EXCEPT ![c] = [ch \in Channel |-> IF frames[ch] # 0 THEN frames[ch]
                                             ELSE shown[c][ch]]]

(* The snapshot is sent, and the lock released.                            *)
SendSnapshot(c) ==
    /\ Yields /\ reader[c] = "send" /\ ~stuck[c]
    /\ shown' = Painted(c, snap[c])
    /\ lock' = [lock EXCEPT ![c] = "free"]
    /\ reader' = [reader EXCEPT ![c] = "receive"]
    /\ UNCHANGED <<redis, feed, hog, life, queue, writer, batch, news, asked, snap, stuck,
                   told, owed, budgets>>

(* unsubscribe pops the queued prices, and leaves the alerts.              *)
Unqueued(c, syms) == [ch \in Channel |-> IF ch \in syms THEN 0 ELSE pending[c][ch]]

Unsubscribe(c, syms) ==
    /\ Yields /\ life[c] = "open" /\ reader[c] = "receive"
    /\ unsubscribes < MaxUnsubscribes
    /\ unsubscribes' = unsubscribes + 1
    /\ symbols' = [symbols EXCEPT ![c] = @ \ syms]
    /\ pending' = [pending EXCEPT ![c] = Unqueued(c, syms)]
    /\ UNCHANGED <<redis, feed, hog, life, events, wakeup, tasks, stuck, browser,
                   subscribes, stalls, outages, disconnects>>

---------------------------------------------------------------------------
(* The writer task.                                                        *)

Queued(c) == pending[c] # Nothing \/ events[c] # {}

(* Mutated: drain does not clear the event.                                *)
NeverCleared(c) == wakeup[c]

(* wakeup.is_set() after drain(), which returns early on an empty queue.   *)
AfterDrain(c) == wakeup[c] /\ ~Queued(c)

(* drain, and the first await of the send.  drain() clears the event only  *)
(* when it takes something.  When it takes nothing and the event is set, no*)
(* await of the loop body suspends: Event.wait, Lock.acquire and the empty *)
(* send return at once (Python 3.12), and so it goes on in the next turn.  *)
DrainAndSend(c) ==
    /\ batch' = [batch EXCEPT ![c] = pending[c]]
    /\ news' = [news EXCEPT ![c] = events[c]]
    /\ pending' = [pending EXCEPT ![c] = Nothing]
    /\ events' = [events EXCEPT ![c] = {}]
    /\ wakeup' = [wakeup EXCEPT ![c] = AfterDrain(c)]
    /\ hog' = IF wakeup[c] /\ ~Queued(c) THEN c ELSE NoOne
    /\ writer' = [writer EXCEPT ![c] = IF Queued(c) THEN "send" ELSE "wait"]
    /\ lock' = [lock EXCEPT ![c] = IF Queued(c) THEN "writer" ELSE "free"]
    /\ UNCHANGED <<redis, feed, life, symbols, reader, asked, snap, stuck, browser, budgets>>

(* The event is set, or a second has passed; that timeout with nothing to  *)
(* send changes nothing.                                                   *)
Wake(c) ==
    /\ Yields /\ writer[c] = "wait" /\ life[c] = "open"
    /\ wakeup[c] \/ Queued(c)
    /\ lock[c] = "free"
    /\ DrainAndSend(c)

(* Woken or after a second without news, past the saturation check, the    *)
(* writer finds the reader holding the lock.                               *)
AwaitLock(c) ==
    /\ Yields /\ writer[c] = "wait" /\ life[c] = "open"
    /\ lock[c] = "reader"
    /\ writer' = [writer EXCEPT ![c] = "lock"]
    /\ UNCHANGED <<redis, feed, hog, life, queue, lock, batch, news, reader, asked, snap,
                   stuck, browser, budgets>>

TakeLock(c) ==
    /\ Yields /\ writer[c] = "lock" /\ lock[c] = "free"
    /\ DrainAndSend(c)

(* Every frame of the batch is on the wire to the browser.                 *)
SendBatch(c) ==
    /\ Yields /\ writer[c] = "send" /\ ~stuck[c]
    /\ shown' = Painted(c, batch[c])
    /\ told' = [told EXCEPT ![c] = @ \cup news[c]]
    /\ batch' = [batch EXCEPT ![c] = Nothing]
    /\ news' = [news EXCEPT ![c] = {}]
    /\ lock' = [lock EXCEPT ![c] = "free"]
    /\ writer' = [writer EXCEPT ![c] = "wait"]
    /\ UNCHANGED <<redis, feed, hog, life, queue, reader, asked, snap, stuck, owed, budgets>>

DropSlowClient(c) ==
    /\ life' = [life EXCEPT ![c] = "closed"]
    /\ writer' = [writer EXCEPT ![c] = "gone"]
    /\ lock' = [lock EXCEPT ![c] = IF @ = "writer" THEN "free" ELSE @]
    /\ UNCHANGED <<redis, feed, hog, queue, batch, news, reader, asked, snap, stuck,
                   browser>>

(* deadline_s runs out on a send.                                          *)
SendTimesOut(c) ==
    /\ Yields /\ writer[c] = "send" /\ stuck[c]
    /\ DropSlowClient(c)
    /\ UNCHANGED budgets

(* note_saturation: the event loop itself was held up past the deadline    *)
(* with something queued.                                                  *)
DropBacklog(c) ==
    /\ Yields /\ writer[c] = "wait" /\ life[c] = "open" /\ Queued(c)
    /\ stalls < MaxStalls
    /\ stalls' = stalls + 1
    /\ DropSlowClient(c)
    /\ UNCHANGED <<subscribes, unsubscribes, outages, disconnects>>

ReaderStep(c) ==
    \/ StartSnapshot(c) \/ ReadSnapshot(c) \/ SendSnapshot(c) \/ ReaderHearsClose(c)

WriterStep(c) ==
    Wake(c) \/ AwaitLock(c) \/ TakeLock(c) \/ SendBatch(c) \/ SendTimesOut(c)

Next ==
    \/ Dispatch \/ Outage \/ Relink
    \/ \E ch \in Channel : PublishTick(ch)
    \/ \E s \in Symbol : PublishAlert(s)
    \/ \E c \in Client :
          \/ Open(c) \/ Disconnect(c) \/ Stall(c) \/ Recover(c) \/ DropBacklog(c)
          \/ \E syms \in SUBSET Symbol \ {{}} : Subscribe(c, syms) \/ Unsubscribe(c, syms)
          \/ ReaderStep(c) \/ WriterStep(c)

Spec == Init /\ [][Next]_vars

(* asyncio runs every ready task as long as no task keeps the thread.      *)
Fairness ==
    /\ WF_vars(Dispatch) /\ WF_vars(Relink)
    /\ \A c \in Client : WF_vars(ReaderStep(c)) /\ WF_vars(WriterStep(c))

FairSpec == Spec /\ Fairness

---------------------------------------------------------------------------
Version == [Channel -> 0..MaxTicks]

(* send_lock is held by the task that is between its two ends.             *)
LockOK ==
    \A c \in Client : /\ lock[c] = "writer" <=> writer[c] = "send"
                      /\ lock[c] = "reader" <=> reader[c] \in {"read", "send"}

RedisOK ==
    /\ price \in Version /\ alerts \in [Symbol -> 0..MaxAlerts]
    /\ wire \in Seq([kind : {"value", "alert"}, ch : Channel, v : Nat])
    /\ linked \in BOOLEAN /\ feed \in 0..MaxTicks

QueueOK ==
    /\ symbols \in [Client -> SUBSET Symbol] /\ pending \in [Client -> Version]
    /\ events \in [Client -> SUBSET Alert] /\ wakeup \in [Client -> BOOLEAN]

TasksOK ==
    /\ lock \in [Client -> {"free", "reader", "writer"}]
    /\ writer \in [Client -> {"gone", "wait", "lock", "send"}]
    /\ batch \in [Client -> Version] /\ news \in [Client -> SUBSET Alert]
    /\ reader \in [Client -> {"gone", "receive", "lock", "read", "send"}]
    /\ asked \in [Client -> SUBSET Symbol] /\ snap \in [Client -> Version]

BrowserOK ==
    /\ shown \in [Client -> Version]
    /\ told \in [Client -> SUBSET Alert] /\ owed \in [Client -> SUBSET Alert]

BudgetsOK ==
    /\ subscribes \in [Client -> 0..MaxSubscribes] /\ unsubscribes \in 0..MaxUnsubscribes
    /\ stalls \in 0..MaxStalls /\ outages \in 0..MaxOutages
    /\ disconnects \in 0..MaxDisconnects

TypeOK ==
    /\ RedisOK /\ QueueOK /\ TasksOK /\ BrowserOK /\ BudgetsOK /\ LockOK
    /\ life \in [Client -> {"off", "open", "closed"}]
    /\ stuck \in [Client -> BOOLEAN] /\ hog \in Client \cup {NoOne}

(* "Snapshot THEN delta ... no gap" (stream.py): with nothing on its way   *)
(* and no pub/sub outage, an open browser shows the newest version of every*)
(* channel it is subscribed to, however subscribes, unsubscribes,          *)
(* reconnects and ticks were interleaved.                                  *)
AtRest(c) ==
    /\ wire = <<>> /\ outages = 0 /\ Yields
    /\ life[c] = "open" /\ writer[c] = "wait" /\ reader[c] = "receive" /\ ~Queued(c)

ShowsTheLatest ==
    \A c \in Client : AtRest(c) =>
        \A ch \in symbols[c] \cup {Status} : shown[c][ch] = price[ch]

(* ALERTS MUST NOT BE CONFLATED (manager.py): every transition queued for a*)
(* session reaches its browser, or is still on the way, for as long as the *)
(* session is open, whatever the client unsubscribes.                      *)
AlertsAreNotConflated ==
    \A c \in Client : life[c] = "open" =>
        owed[c] \subseteq told[c] \cup events[c] \cup news[c]

(* "an unsubscribe takes effect immediately rather than after a flush"     *)
(* (conflator.py), and pending is "bounded by the number of subscribed     *)
(* symbols": no price is queued for a symbol the client does not want.     *)
OnlyWantedIsQueued ==
    \A c \in Client, s \in Symbol :
        life[c] = "open" /\ pending[c][s] # 0 => s \in symbols[c]

(* A session's tasks take turns at its socket, and its queue holds only    *)
(* what its client wants.                                                  *)
SessionInv == TypeOK /\ OnlyWantedIsQueued

(* What makes them inductive.  A message is a version or a transition that *)
(* was published, and of a channel's versions under way the last is newest.*)
ValueAt(i, ch) == i \in DOMAIN wire /\ wire[i].kind = "value" /\ wire[i].ch = ch

UnderWay(ch) == \E i \in DOMAIN wire : ValueAt(i, ch)

WireOK ==
    \A i \in DOMAIN wire :
        LET msg == wire[i]
        IN IF msg.kind = "value" THEN msg.v \in 1..price[msg.ch]
           ELSE msg.ch \in Symbol /\ msg.v \in 1..MaxAlerts

LastIsNewest ==
    \A i \in DOMAIN wire, ch \in Channel :
        ValueAt(i, ch) => wire[i].v = price[ch] \/ \E j \in DOMAIN wire : i < j /\ ValueAt(j, ch)

(* What a browser will show once the tasks have sent what they hold: the   *)
(* queue goes last, and send_lock keeps a batch and a snapshot apart.      *)
Coming(c, ch) ==
    IF pending[c][ch] # 0 THEN pending[c][ch]
    ELSE IF writer[c] = "send" /\ batch[c][ch] # 0 THEN batch[c][ch]
    ELSE IF reader[c] = "send" /\ snap[c][ch] # 0 THEN snap[c][ch]
    ELSE shown[c][ch]

(* A wanted channel with nothing under way either has its newest version   *)
(* coming or is about to be read for a snapshot, and nothing older is      *)
(* queued over it.                                                         *)
Served(c, ch) ==
    Wants(c, ch) /\ ~UnderWay(ch) =>
        /\ pending[c][ch] \in {0, price[ch]}
        /\ Coming(c, ch) = price[ch] \/ (reader[c] = "read" /\ ch \in asked[c])

NewestIsComing ==
    /\ linked /\ LastIsNewest
    /\ UnderWay(Status) \/ feed = price[Status]
    /\ \A c \in Client, ch \in Channel : Served(c, ch)

(* No copy of a version is ahead of Redis.                                 *)
NotAheadAt(c, ch) ==
    /\ pending[c][ch] <= price[ch] /\ batch[c][ch] <= price[ch]
    /\ snap[c][ch] <= price[ch] /\ shown[c][ch] <= price[ch]

NotAhead ==
    feed <= price[Status] /\ \A c \in Client, ch \in Channel : NotAheadAt(c, ch)

DeliveryInv == WireOK /\ NotAhead /\ (outages = 0 => NewestIsComing)

(* A transition leaves the queue only for the batch being sent.            *)
AlertsOnTheirWay ==
    \A c \in Client : life[c] = "open" =>
        owed[c] \subseteq told[c] \cup events[c] \cup (IF writer[c] = "send" THEN news[c] ELSE {})

(* A stalled or slow client holds up nobody else: what is queued for a     *)
(* client whose socket takes data is sent, unless an unsubscribe emptied a *)
(* queue whose event was set and that client's writer now spins (drain()   *)
(* returns before it clears the event, conflator.py).                      *)
ServedUnlessAWriterSpins ==
    \A c \in Client : (life[c] = "open" /\ Queued(c))
                        ~> \/ ~Queued(c) \/ life[c] # "open" \/ stuck[c]
                           \/ unsubscribes > 0 /\ hog # NoOne

---------------------------------------------------------------------------
(* What the repository's comments say of the gateway and the code does not *)
(* keep.                                                                   *)

(* "nobody blocks anybody" (conflator.py): what is queued for a client     *)
(* whose socket takes data is sent, whatever the other clients do.         *)
EveryClientIsServed ==
    \A c \in Client : (life[c] = "open" /\ Queued(c))
                        ~> (~Queued(c) \/ life[c] # "open" \/ stuck[c])

(* "A client that has not taken anything for the whole deadline is not     *)
(* reading at all ... Disconnect it" (conflator.py).                       *)
StalledClientIsDropped ==
    \A c \in Client : (life[c] = "open" /\ stuck[c] /\ Queued(c))
                        ~> (life[c] # "open" \/ ~stuck[c])

(* "no double-apply, because conflation keeps only the newest value per    *)
(* key" (stream.py): what a connected browser shows never goes back.       *)
NeverGoesBack ==
    [][\A c \in Client, s \in Symbol : shown'[c][s] >= shown[c][s]]_vars

============================================================================
