-------------------------- MODULE WsGatewayProofs --------------------------
(***************************************************************************)
(* Proofs about WsGateway: for every number of clients and symbols, and    *)
(* every bound on ticks, alerts, operations and failures.                  *)
(***************************************************************************)
EXTENDS WsGateway, SequenceTheorems, TLAPS

USE GatewayAssumption

Message == [kind : {"value", "alert"}, ch : Channel, v : Nat]

(* A message is appended to the wire or, without a connection, lost.       *)
LEMMA SendType ==
  ASSUME wire \in Seq(Message), NEW msg \in Message, Send(msg)
  PROVE  wire' \in Seq(Message)
BY DEF Send

(* What PUBLISH does to the messages under way.                            *)
Published(msg) ==
  IF linked
  THEN /\ DOMAIN wire = 1..Len(wire) /\ Len(wire) \in Nat
       /\ DOMAIN wire' = 1..(Len(wire) + 1) /\ Len(wire) + 1 \in DOMAIN wire'
       /\ \A i \in DOMAIN wire : i \in DOMAIN wire' /\ wire'[i] = wire[i]
       /\ \A i \in DOMAIN wire' : i \in DOMAIN wire \/ i = Len(wire) + 1
       /\ wire'[Len(wire) + 1] = msg
  ELSE wire' = wire

LEMMA SendAppends ==
  ASSUME wire \in Seq(Message), NEW msg \in Message, Send(msg)
  PROVE  Published(msg)
BY DEF Send, Published

(* What taking the first message does to the others.                       *)
LEMMA TailShifts ==
  ASSUME wire \in Seq(Message), wire # <<>>, wire' = Tail(wire)
  PROVE  /\ wire' \in Seq(Message) /\ Head(wire) \in Message /\ Head(wire) = wire[1]
         /\ DOMAIN wire = 1..Len(wire) /\ Len(wire) \in Nat \ {0}
         /\ DOMAIN wire' = 1..(Len(wire) - 1)
         /\ \A i \in DOMAIN wire' : wire'[i] = wire[i + 1] /\ i + 1 \in DOMAIN wire
BY HeadTailProperties, SMT

(* What is on the wire are messages.                                       *)
LEMMA WireElements ==
  ASSUME TypeOK
  PROVE  \A i \in DOMAIN wire : wire[i] \in Message
<1>1. wire \in Seq(Message)
  BY DEF TypeOK, RedisOK, Message
<1>2. QED
  BY <1>1, ElementOfSeq

(* Nothing is a version of every channel, and frames replace versions.     *)
LEMMA VersionFacts ==
  /\ Nothing \in Version
  /\ \A f, g \in Version : [ch \in Channel |-> IF f[ch] # 0 THEN f[ch] ELSE g[ch]] \in Version
BY DEF Nothing, Version

(* The router: what a dispatched message puts into the queues.             *)
LEMMA DispatchType ==
  ASSUME TypeOK, WireOK, Dispatch
  PROVE  TypeOK'
<1> DEFINE msg == Head(wire)
           for == {c \in Client : Wants(c, msg.ch)}
           a   == <<msg.ch, msg.v>>
<1>1. wire' \in Seq(Message) /\ msg \in Message /\ 1 \in DOMAIN wire /\ msg = wire[1]
  BY TailShifts DEF Dispatch, TypeOK, RedisOK, Message
<1>2. /\ msg.kind = "value" => msg.v \in 1..price[msg.ch] /\ price[msg.ch] \in 0..MaxTicks
      /\ msg.kind = "alert" => a \in Alert
  BY <1>1 DEF WireOK, Alert, TypeOK, RedisOK, Version, Message
<1> HIDE DEF msg, for, a
<1>3. msg.kind \in {"value", "alert"} /\ msg.ch \in Channel
  BY <1>1 DEF Message
<1>4. feed' \in 0..MaxTicks
  <2>1. CASE msg.ch = Status
    <3>1. msg.kind = "value"
      BY <1>1, <1>2, <1>3, <2>1 DEF WireOK
    <3>2. feed' = msg.v
      BY <2>1 DEF Dispatch, msg
    <3>3. QED
      BY <1>2, <3>1, <3>2
  <2>2. CASE msg.ch # Status
    BY <2>2 DEF Dispatch, msg, TypeOK, RedisOK
  <2>3. QED
    BY <2>1, <2>2
<1>5. RedisOK'
  BY <1>1, <1>4 DEF Dispatch, TypeOK, RedisOK, Message
<1>6. wakeup' \in [Client -> BOOLEAN]
  BY DEF Dispatch, TypeOK, QueueOK
<1>7. CASE msg.kind = "value"
  <2>1. \A c \in Client : [pending[c] EXCEPT ![msg.ch] = msg.v] \in Version
    BY <1>2, <1>3, <1>7 DEF TypeOK, QueueOK, Version
  <2>2. /\ pending' = [c \in Client |-> IF c \in for
                         THEN [pending[c] EXCEPT ![msg.ch] = msg.v] ELSE pending[c]]
        /\ UNCHANGED <<events, owed>>
    BY <1>7 DEF Dispatch, msg, for
  <2>3. pending' \in [Client -> Version]
    BY <2>1, <2>2 DEF TypeOK, QueueOK
  <2>4. QueueOK' /\ BrowserOK'
    BY <1>6, <2>2, <2>3 DEF Dispatch, TypeOK, QueueOK, BrowserOK
  <2>5. QED
    BY <1>5, <2>4 DEF Dispatch, TypeOK, TasksOK, BudgetsOK, LockOK, tasks, budgets
<1>8. CASE msg.kind = "alert"
  <2>1. /\ events' = [c \in Client |-> IF c \in for THEN events[c] \cup {a} ELSE events[c]]
        /\ owed' = [c \in Client |-> IF c \in for THEN owed[c] \cup {a} ELSE owed[c]]
        /\ UNCHANGED pending
    BY <1>8 DEF Dispatch, msg, for, a, QueueAlert
  <2>2. events' \in [Client -> SUBSET Alert] /\ owed' \in [Client -> SUBSET Alert]
    BY <1>2, <1>8, <2>1 DEF TypeOK, QueueOK, BrowserOK
  <2>3. QueueOK' /\ BrowserOK'
    BY <1>6, <2>1, <2>2 DEF Dispatch, TypeOK, QueueOK, BrowserOK
  <2>4. QED
    BY <1>5, <2>3 DEF Dispatch, TypeOK, TasksOK, BudgetsOK, LockOK, tasks, budgets
<1>9. QED
  BY <1>3, <1>7, <1>8

(* What drain() and the first await of a send leave behind.                *)
LEMMA DrainType ==
  ASSUME TypeOK, NEW c \in Client, lock[c] = "free", DrainAndSend(c)
  PROVE  TypeOK'
<1>1. QueueOK'
  BY VersionFacts DEF DrainAndSend, TypeOK, QueueOK, AfterDrain, Queued
<1>2. TasksOK'
  BY DEF DrainAndSend, TypeOK, TasksOK, QueueOK
<1>3. LockOK'
  BY DEF DrainAndSend, TypeOK, TasksOK, LockOK
<1>4. QED
  BY <1>1, <1>2, <1>3 DEF DrainAndSend, TypeOK, RedisOK, BrowserOK, BudgetsOK, redis,
                          browser, budgets

(* Frames painted over what a browser showed.                              *)
LEMMA PaintType ==
  ASSUME TypeOK, NEW c \in Client, NEW frames \in Version, shown' = Painted(c, frames)
  PROVE  shown' \in [Client -> Version]
<1>1. [ch \in Channel |-> IF frames[ch] # 0 THEN frames[ch] ELSE shown[c][ch]] \in Version
  BY VersionFacts DEF TypeOK, BrowserOK
<1>2. QED
  BY <1>1 DEF Painted, TypeOK, BrowserOK

(* The writer gives up on its client.                                      *)
LEMMA DropType ==
  ASSUME TypeOK, NEW c \in Client, writer[c] \in {"wait", "send"}, DropSlowClient(c)
  PROVE  /\ RedisOK' /\ QueueOK' /\ TasksOK' /\ BrowserOK' /\ LockOK'
         /\ life' \in [Client -> {"off", "open", "closed"}]
         /\ UNCHANGED <<stuck, hog>>
<1>1. TasksOK'
  BY DEF DropSlowClient, TypeOK, TasksOK
<1>2. LockOK'
  BY DEF DropSlowClient, TypeOK, TasksOK, LockOK
<1>3. QED
  BY <1>1, <1>2 DEF DropSlowClient, TypeOK, RedisOK, QueueOK, BrowserOK, redis, queue, browser

(* The finally of stream().                                                *)
LEMMA EndType ==
  ASSUME TypeOK, NEW c \in Client, EndSession(c)
  PROVE  /\ RedisOK' /\ QueueOK' /\ TasksOK' /\ BrowserOK' /\ LockOK'
         /\ life' \in [Client -> {"off", "open", "closed"}]
         /\ UNCHANGED <<stuck, hog>>
<1>1. TasksOK'
  BY DEF EndSession, TypeOK, TasksOK
<1>2. LockOK'
  BY DEF EndSession, TypeOK, TasksOK, LockOK
<1>3. QED
  BY <1>1, <1>2 DEF EndSession, TypeOK, RedisOK, QueueOK, BrowserOK, redis, queue, browser

(* Steps of the ingestor and of the pub/sub connection keep the types.     *)
LEMMA WorldType ==
  ASSUME TypeOK, Outage \/ Relink \/ (\E ch \in Channel : PublishTick(ch))
                         \/ (\E s \in Symbol : PublishAlert(s))
  PROVE  TypeOK'
<1>1. UNCHANGED <<hog, life, queue, tasks, stuck, browser, feed>>
  BY DEF Outage, Relink, PublishTick, PublishAlert
<1>2. QueueOK' /\ TasksOK' /\ BrowserOK' /\ LockOK'
  BY <1>1 DEF TypeOK, QueueOK, TasksOK, BrowserOK, LockOK, queue, tasks, browser
<1>3. BudgetsOK'
  <2>1. CASE Outage
    BY <2>1 DEF TypeOK, BudgetsOK, Outage
  <2>2. CASE UNCHANGED budgets
    BY <2>2 DEF TypeOK, BudgetsOK, budgets
  <2>3. Outage \/ UNCHANGED budgets
    BY DEF Relink, PublishTick, PublishAlert
  <2>4. QED
    BY <2>1, <2>2, <2>3
<1>4. RedisOK'
  <2>1. CASE Outage \/ Relink
    <3>1. UNCHANGED <<price, alerts, feed>> /\ linked' \in BOOLEAN /\ wire' \in {wire, <<>>}
      BY <2>1 DEF Outage, Relink
    <3>2. <<>> \in Seq(Message)
      OBVIOUS
    <3>3. wire \in Seq(Message)
      BY DEF TypeOK, RedisOK, Message
    <3>4. wire' \in Seq(Message)
      BY <3>1, <3>2, <3>3
    <3>5. QED
      BY <3>1, <3>4 DEF TypeOK, RedisOK, Message
  <2>2. ASSUME NEW ch \in Channel, PublishTick(ch)
        PROVE  RedisOK'
    <3>1. price[ch] + 1 \in Nat /\ price[ch] + 1 \in 0..MaxTicks
      BY <2>2 DEF PublishTick, TypeOK, RedisOK, Version
    <3>2. wire' \in Seq(Message)
      BY <2>2, <3>1, SendType DEF PublishTick, TypeOK, RedisOK, Message
    <3>3. price' \in Version
      BY <2>2, <3>1 DEF PublishTick, TypeOK, RedisOK, Version
    <3>4. QED
      BY <1>1, <2>2, <3>2, <3>3 DEF PublishTick, TypeOK, RedisOK, Message
  <2>3. ASSUME NEW s \in Symbol, PublishAlert(s)
        PROVE  RedisOK'
    <3>1. alerts[s] + 1 \in Nat /\ alerts[s] + 1 \in 0..MaxAlerts /\ s \in Channel
      BY <2>3 DEF PublishAlert, TypeOK, RedisOK, Channel
    <3>2. wire' \in Seq(Message)
      BY <2>3, <3>1, SendType DEF PublishAlert, TypeOK, RedisOK, Message
    <3>3. QED
      BY <1>1, <2>3, <3>1, <3>2 DEF PublishAlert, TypeOK, RedisOK, Message
  <2>4. QED
    BY <2>1, <2>2, <2>3
<1>5. QED
  BY <1>1, <1>2, <1>3, <1>4 DEF TypeOK

(* Every step of a connection keeps the types.                             *)
LEMMA ClientType ==
  ASSUME TypeOK, NEW c \in Client,
         \/ Open(c) \/ Disconnect(c) \/ Stall(c) \/ Recover(c) \/ DropBacklog(c)
         \/ \E syms \in SUBSET Symbol \ {{}} : Subscribe(c, syms) \/ Unsubscribe(c, syms)
         \/ ReaderStep(c) \/ WriterStep(c)
  PROVE  TypeOK'
<1>1. /\ UNCHANGED <<redis, feed>> => RedisOK'
      /\ UNCHANGED queue => QueueOK'
      /\ UNCHANGED tasks => TasksOK' /\ LockOK'
      /\ UNCHANGED browser => BrowserOK'
      /\ UNCHANGED budgets => BudgetsOK'
  BY DEF TypeOK, RedisOK, QueueOK, TasksOK, LockOK, BrowserOK, BudgetsOK,
         redis, queue, tasks, browser, budgets
<1>2. CASE Open(c)
  <2>1. QueueOK'
    BY <1>2, VersionFacts DEF Open, TypeOK, QueueOK
  <2>2. TasksOK' /\ LockOK'
    BY <1>2 DEF Open, TypeOK, TasksOK, LockOK
  <2>3. [shown[c] EXCEPT ![Status] = feed] \in Version
    BY DEF TypeOK, RedisOK, BrowserOK, Version, Channel
  <2>4. shown' = [shown EXCEPT ![c] = [shown[c] EXCEPT ![Status] = feed]]
    BY <1>2 DEF Open
  <2>5. BrowserOK'
    BY <1>2, <2>3, <2>4 DEF Open, TypeOK, BrowserOK
  <2>6. BudgetsOK'
    BY <1>2 DEF Open, TypeOK, BudgetsOK
  <2>7. QED
    BY <1>1, <1>2, <2>1, <2>2, <2>5, <2>6 DEF Open, TypeOK
<1>3. CASE Disconnect(c)
  <2>1. BudgetsOK'
    BY <1>3 DEF Disconnect, TypeOK, BudgetsOK
  <2>2. QED
    BY <1>3, <2>1, EndType DEF Disconnect, TypeOK
<1>4. CASE Stall(c)
  BY <1>1, <1>4 DEF Stall, TypeOK, BudgetsOK
<1>5. CASE Recover(c)
  BY <1>1, <1>5 DEF Recover, TypeOK
<1>6. CASE DropBacklog(c)
  <2>1. BudgetsOK'
    BY <1>6 DEF DropBacklog, TypeOK, BudgetsOK
  <2>2. QED
    BY <1>6, <2>1, DropType DEF DropBacklog, TypeOK
<1>7. ASSUME NEW syms \in SUBSET Symbol \ {{}}, Subscribe(c, syms)
      PROVE  TypeOK'
  <2>1. TasksOK' /\ LockOK'
    BY <1>7 DEF Subscribe, TypeOK, TasksOK, LockOK
  <2>2. BudgetsOK'
    BY <1>7 DEF Subscribe, TypeOK, BudgetsOK
  <2>3. QED
    BY <1>1, <1>7, <2>1, <2>2 DEF Subscribe, TypeOK
<1>8. ASSUME NEW syms \in SUBSET Symbol \ {{}}, Unsubscribe(c, syms)
      PROVE  TypeOK'
  <2>1. Unqueued(c, syms) \in Version
    BY DEF Unqueued, TypeOK, QueueOK, Version
  <2>2. QueueOK'
    BY <1>8, <2>1 DEF Unsubscribe, TypeOK, QueueOK
  <2>3. BudgetsOK'
    BY <1>8 DEF Unsubscribe, TypeOK, BudgetsOK
  <2>4. QED
    BY <1>1, <1>8, <2>2, <2>3 DEF Unsubscribe, TypeOK
<1>9. CASE StartSnapshot(c)
  <2>1. TasksOK' /\ LockOK'
    BY <1>9 DEF StartSnapshot, TypeOK, TasksOK, LockOK
  <2>2. QueueOK'
    BY <1>9 DEF StartSnapshot, TypeOK, QueueOK, TasksOK
  <2>3. QED
    BY <1>1, <1>9, <2>1, <2>2 DEF StartSnapshot, TypeOK
<1>10. CASE ReadSnapshot(c)
  <2>1. [ch \in Channel |-> IF ch \in asked[c] THEN price[ch] ELSE 0] \in Version
    BY DEF TypeOK, RedisOK, Version
  <2>2. TasksOK' /\ LockOK'
    BY <1>10, <2>1 DEF ReadSnapshot, TypeOK, TasksOK, LockOK
  <2>3. QED
    BY <1>1, <1>10, <2>2 DEF ReadSnapshot, TypeOK
<1>11. CASE SendSnapshot(c)
  <2>1. shown' \in [Client -> Version]
    BY <1>11, PaintType DEF SendSnapshot, TypeOK, TasksOK
  <2>2. TasksOK' /\ LockOK'
    BY <1>11 DEF SendSnapshot, TypeOK, TasksOK, LockOK
  <2>3. BrowserOK'
    BY <1>11, <2>1 DEF SendSnapshot, TypeOK, BrowserOK
  <2>4. QED
    BY <1>1, <1>11, <2>2, <2>3 DEF SendSnapshot, TypeOK
<1>12. CASE ReaderHearsClose(c)
  BY <1>1, <1>12, EndType DEF ReaderHearsClose, TypeOK
<1>13. CASE Wake(c) \/ TakeLock(c)
  BY <1>13, DrainType DEF Wake, TakeLock
<1>14. CASE AwaitLock(c)
  <2>1. TasksOK' /\ LockOK'
    BY <1>14 DEF AwaitLock, TypeOK, TasksOK, LockOK
  <2>2. QED
    BY <1>1, <1>14, <2>1 DEF AwaitLock, TypeOK
<1>15. CASE SendBatch(c)
  <2>1. shown' \in [Client -> Version]
    BY <1>15, PaintType DEF SendBatch, TypeOK, TasksOK
  <2>2. TasksOK' /\ LockOK'
    BY <1>15, VersionFacts DEF SendBatch, TypeOK, TasksOK, LockOK
  <2>3. BrowserOK'
    BY <1>15, <2>1 DEF SendBatch, TypeOK, BrowserOK, TasksOK
  <2>4. QED
    BY <1>1, <1>15, <2>2, <2>3 DEF SendBatch, TypeOK
<1>16. CASE SendTimesOut(c)
  BY <1>1, <1>16, DropType DEF SendTimesOut, TypeOK
<1>17. QED
  BY <1>2, <1>3, <1>4, <1>5, <1>6, <1>7, <1>8, <1>9, <1>10, <1>11, <1>12, <1>13, <1>14,
     <1>15, <1>16 DEF ReaderStep, WriterStep

(* A step of one connection, by whom or what it is taken.                  *)
ClientStep(c) ==
  \/ Open(c) \/ Disconnect(c) \/ Stall(c) \/ Recover(c) \/ DropBacklog(c)
  \/ \E syms \in SUBSET Symbol \ {{}} : Subscribe(c, syms) \/ Unsubscribe(c, syms)
  \/ ReaderStep(c) \/ WriterStep(c)

(* No connection writes to Redis, to the wire or to the cached status.     *)
LEMMA ClientsOnlyRead ==
  ASSUME NEW c \in Client, ClientStep(c)
  PROVE  UNCHANGED <<price, alerts, wire, linked, feed, outages>>
BY DEF ClientStep, Open, Disconnect, Stall, Recover, DropBacklog, Subscribe, Unsubscribe,
       ReaderStep, WriterStep, StartSnapshot, ReadSnapshot, SendSnapshot, ReaderHearsClose,
       Wake, AwaitLock, TakeLock, SendBatch, SendTimesOut, EndSession, DropSlowClient,
       DrainAndSend, redis, budgets

(* A tick leaves Redis one version further and its message last.           *)
TickMessage(ch) == [kind |-> "value", ch |-> ch, v |-> price[ch] + 1]

LEMMA TickPublished ==
  ASSUME TypeOK, NEW ch \in Channel, PublishTick(ch)
  PROVE  /\ price[ch] \in Nat
         /\ \A x \in Channel : price'[x] = IF x = ch THEN price[ch] + 1 ELSE price[x]
         /\ Published(TickMessage(ch))
<1>1. /\ price[ch] \in Nat
      /\ \A x \in Channel : price'[x] = IF x = ch THEN price[ch] + 1 ELSE price[x]
  BY DEF PublishTick, TypeOK, RedisOK, Version
<1>2. TickMessage(ch) \in Message /\ Send(TickMessage(ch)) /\ wire \in Seq(Message)
  BY <1>1 DEF Message, TickMessage, PublishTick, TypeOK, RedisOK
<1>3. QED
  BY <1>1, <1>2, SendAppends

(* So does a transition, and leaves the prices alone.                      *)
AlertMessage(s) == [kind |-> "alert", ch |-> s, v |-> alerts[s] + 1]

LEMMA AlertPublished ==
  ASSUME TypeOK, NEW s \in Symbol, PublishAlert(s)
  PROVE  alerts[s] + 1 \in 1..MaxAlerts /\ price' = price /\ Published(AlertMessage(s))
<1>1. alerts[s] + 1 \in 1..MaxAlerts /\ price' = price
  BY DEF PublishAlert, TypeOK, RedisOK
<1>2. AlertMessage(s) \in Message /\ Send(AlertMessage(s)) /\ wire \in Seq(Message)
  BY <1>1 DEF Message, AlertMessage, PublishAlert, TypeOK, RedisOK, Channel
<1>3. QED
  BY <1>1, <1>2, SendAppends

(* Every message on the wire was published.                                *)
LEMMA WireStep ==
  ASSUME TypeOK, WireOK, [Next]_vars
  PROVE  WireOK'
<1>0. \A x \in Channel : price[x] \in Nat
  BY DEF TypeOK, RedisOK, Version
<1>1. CASE UNCHANGED <<price, wire>>
  BY <1>1 DEF WireOK
<1>2. CASE Dispatch
  <2>1. /\ \A i \in DOMAIN wire' : wire'[i] = wire[i + 1] /\ i + 1 \in DOMAIN wire
        /\ price' = price
    BY <1>2, TailShifts DEF Dispatch, TypeOK, RedisOK, Message
  <2>2. QED
    BY <2>1 DEF WireOK
<1>3. CASE Outage
  BY <1>3 DEF Outage, WireOK
<1>4. ASSUME NEW ch \in Channel, PublishTick(ch)
      PROVE  WireOK'
  <2>1. /\ price[ch] \in Nat
        /\ \A x \in Channel : price'[x] = IF x = ch THEN price[ch] + 1 ELSE price[x]
        /\ Published(TickMessage(ch))
    BY <1>4, TickPublished
  <2>2. \A i \in DOMAIN wire : wire[i].ch \in Channel
    BY WireElements DEF Message
  <2>3. ASSUME NEW i \in DOMAIN wire, wire[i].kind = "value"
        PROVE  wire[i].v \in 1..price'[wire[i].ch]
    <3>1. wire[i].v \in 1..price[wire[i].ch] /\ price[wire[i].ch] \in Nat
      BY <1>0, <2>2, <2>3 DEF WireOK
    <3>2. price'[wire[i].ch] \in {price[wire[i].ch], price[wire[i].ch] + 1}
      BY <2>1, <2>2
    <3>3. QED
      BY <3>1, <3>2
  <2>4. \A i \in DOMAIN wire' :
          (i \in DOMAIN wire /\ wire'[i] = wire[i]) \/ wire'[i] = TickMessage(ch)
    BY <2>1 DEF Published
  <2>5. TickMessage(ch).v \in 1..price'[ch]
    BY <2>1 DEF TickMessage
  <2>6. QED
    BY <2>3, <2>4, <2>5 DEF WireOK, TickMessage
<1>5. ASSUME NEW s \in Symbol, PublishAlert(s)
      PROVE  WireOK'
  <2>1. alerts[s] + 1 \in 1..MaxAlerts /\ price' = price /\ Published(AlertMessage(s))
    BY <1>5, AlertPublished
  <2>2. \A i \in DOMAIN wire' :
          (i \in DOMAIN wire /\ wire'[i] = wire[i]) \/ wire'[i] = AlertMessage(s)
    BY <2>1 DEF Published
  <2>3. QED
    BY <2>1, <2>2 DEF WireOK, AlertMessage
<1>6. UNCHANGED vars \/ Relink => UNCHANGED <<price, wire>>
  BY DEF vars, redis, Relink
<1>7. (\E c \in Client : ClientStep(c)) => UNCHANGED <<price, wire>>
  BY ClientsOnlyRead
<1>8. QED
  BY <1>1, <1>2, <1>3, <1>4, <1>5, <1>6, <1>7 DEF Next, ClientStep

(* Versions and transitions stay what was published, the lock with the     *)
(* task that took it, and every variable of its type.                      *)
LEMMA TypeStep ==
  ASSUME TypeOK, WireOK, [Next]_vars
  PROVE  TypeOK'
<1>1. CASE UNCHANGED vars
  BY <1>1 DEF vars, TypeOK, RedisOK, QueueOK, TasksOK, BrowserOK, BudgetsOK, LockOK, redis,
              queue, tasks, browser, budgets
<1>2. QED
  BY <1>1, DispatchType, WorldType, ClientType DEF Next

(* A step of one connection leaves the others' as they are.                *)
LEMMA OthersUntouched ==
  ASSUME TypeOK, NEW c \in Client, ClientStep(c), NEW d \in Client, d # c
  PROVE  /\ life'[d] = life[d] /\ symbols'[d] = symbols[d] /\ pending'[d] = pending[d]
         /\ events'[d] = events[d] /\ writer'[d] = writer[d] /\ batch'[d] = batch[d]
         /\ news'[d] = news[d] /\ reader'[d] = reader[d] /\ asked'[d] = asked[d]
         /\ snap'[d] = snap[d] /\ shown'[d] = shown[d] /\ told'[d] = told[d]
         /\ owed'[d] = owed[d]
<1> USE DEF TypeOK, QueueOK, TasksOK, BrowserOK
<1>1. CASE Open(c)
  BY <1>1 DEF Open
<1>2. CASE Disconnect(c) \/ ReaderHearsClose(c)
  BY <1>2 DEF Disconnect, ReaderHearsClose, EndSession, queue, browser
<1>3. CASE Stall(c) \/ Recover(c)
  BY <1>3 DEF Stall, Recover, queue, tasks, browser
<1>4. CASE DropBacklog(c) \/ SendTimesOut(c)
  BY <1>4 DEF DropBacklog, SendTimesOut, DropSlowClient, queue, browser
<1>5. CASE \E syms \in SUBSET Symbol \ {{}} : Subscribe(c, syms) \/ Unsubscribe(c, syms)
  BY <1>5 DEF Subscribe, Unsubscribe, queue, tasks, browser
<1>6. CASE StartSnapshot(c) \/ ReadSnapshot(c) \/ AwaitLock(c)
  BY <1>6 DEF StartSnapshot, ReadSnapshot, AwaitLock, queue, browser
<1>7. CASE SendSnapshot(c) \/ SendBatch(c)
  BY <1>7 DEF SendSnapshot, SendBatch, Painted, queue
<1>8. CASE Wake(c) \/ TakeLock(c)
  BY <1>8 DEF Wake, TakeLock, DrainAndSend, browser
<1>9. QED
  BY <1>1, <1>2, <1>3, <1>4, <1>5, <1>6, <1>7, <1>8 DEF ClientStep, ReaderStep, WriterStep

(* What a connection's own step does to its copies: a copy is moved on,    *)
(* emptied, or made from Redis or the cached status.                       *)
LEMMA CopiesMoveOn ==
  ASSUME TypeOK, NEW c \in Client, ClientStep(c), NEW ch \in Channel
  PROVE  /\ pending'[c][ch] \in {pending[c][ch], 0}
         /\ batch'[c][ch] \in {batch[c][ch], pending[c][ch], 0}
         /\ snap'[c][ch] \in {snap[c][ch], price[ch], 0}
         /\ \/ shown'[c][ch] \in {shown[c][ch], batch[c][ch], snap[c][ch]}
            \/ ch = Status /\ shown'[c][ch] = feed
<1> USE DEF TypeOK, QueueOK, TasksOK, BrowserOK, Version
<1>1. CASE Open(c)
  BY <1>1 DEF Open, Nothing
<1>2. CASE Disconnect(c) \/ ReaderHearsClose(c)
  BY <1>2 DEF Disconnect, ReaderHearsClose, EndSession, queue, browser
<1>3. CASE Stall(c) \/ Recover(c)
  BY <1>3 DEF Stall, Recover, queue, tasks, browser
<1>4. CASE DropBacklog(c) \/ SendTimesOut(c)
  BY <1>4 DEF DropBacklog, SendTimesOut, DropSlowClient, queue, browser
<1>5. CASE \E syms \in SUBSET Symbol \ {{}} : Subscribe(c, syms) \/ Unsubscribe(c, syms)
  BY <1>5 DEF Subscribe, Unsubscribe, Unqueued, queue, tasks, browser
<1>6. CASE StartSnapshot(c) \/ ReadSnapshot(c) \/ AwaitLock(c)
  BY <1>6 DEF StartSnapshot, ReadSnapshot, AwaitLock, queue, browser
<1>7. CASE SendSnapshot(c) \/ SendBatch(c)
  BY <1>7 DEF SendSnapshot, SendBatch, Painted, Nothing, queue
<1>8. CASE Wake(c) \/ TakeLock(c)
  BY <1>8 DEF Wake, TakeLock, DrainAndSend, Nothing, browser
<1>9. QED
  BY <1>1, <1>2, <1>3, <1>4, <1>5, <1>6, <1>7, <1>8 DEF ClientStep, ReaderStep, WriterStep

(* The router takes a published version into some queues and, of the       *)
(* status channel, into the cache.                                         *)
LEMMA DispatchTakes ==
  ASSUME TypeOK, WireOK, Dispatch
  PROVE  /\ price' = price /\ linked' = linked /\ outages' = outages
         /\ UNCHANGED <<life, symbols, writer, batch, news, reader, asked, snap, shown, told>>
         /\ wire' = Tail(wire) /\ wire # <<>>
         /\ IF wire[1].kind = "value"
            THEN /\ wire[1].ch \in Channel /\ wire[1].v \in 1..price[wire[1].ch]
                 /\ \A c \in Client, ch \in Channel : pending'[c][ch] =
                       IF ch = wire[1].ch /\ Wants(c, ch) THEN wire[1].v ELSE pending[c][ch]
                 /\ feed' = IF wire[1].ch = Status THEN wire[1].v ELSE feed
                 /\ UNCHANGED <<events, owed>>
            ELSE /\ wire[1].ch \in Symbol /\ UNCHANGED <<pending, feed>>
                 /\ \A c \in Client : IF Wants(c, wire[1].ch)
                       THEN \E a \in Alert : /\ events'[c] = events[c] \cup {a}
                                             /\ owed'[c] = owed[c] \cup {a}
                       ELSE events'[c] = events[c] /\ owed'[c] = owed[c]
<1> DEFINE msg == wire[1]
           a   == <<msg.ch, msg.v>>
<1>1. /\ wire \in Seq(Message) /\ wire # <<>> /\ wire' = Tail(wire)
      /\ UNCHANGED <<price, linked, outages, life, symbols, writer, batch, news, reader, asked,
                     snap, shown, told>>
  BY DEF Dispatch, TypeOK, RedisOK, Message, tasks, budgets
<1>2. Head(wire) = msg /\ msg \in Message /\ 1 \in DOMAIN wire
  BY <1>1, TailShifts
<1>3. msg.ch \in Channel /\ msg.kind \in {"value", "alert"}
  BY <1>2 DEF Message
<1>4. CASE msg.kind = "value"
  <2>1. msg.v \in 1..price[msg.ch]
    BY <1>2, <1>4 DEF WireOK
  <2>2. /\ pending' = [c \in Client |-> IF c \in {x \in Client : Wants(x, msg.ch)}
                         THEN [pending[c] EXCEPT ![msg.ch] = msg.v] ELSE pending[c]]
        /\ feed' = IF msg.ch = Status THEN msg.v ELSE feed
        /\ UNCHANGED <<events, owed>>
    BY <1>2, <1>4 DEF Dispatch
  <2>3. \A c \in Client : pending[c] \in [Channel -> 0..MaxTicks]
    BY DEF TypeOK, QueueOK, Version
  <2>4. \A c \in Client, ch \in Channel : pending'[c][ch] =
          IF ch = msg.ch /\ Wants(c, ch) THEN msg.v ELSE pending[c][ch]
    BY <2>2, <2>3
  <2>5. QED
    BY <1>1, <1>3, <1>4, <2>1, <2>2, <2>4
<1>5. CASE msg.kind = "alert"
  <2>1. msg.ch \in Symbol /\ a \in Alert
    BY <1>2, <1>5 DEF WireOK, Alert
  <2>2. /\ events' = [c \in Client |-> IF c \in {x \in Client : Wants(x, msg.ch)}
                                      THEN events[c] \cup {a} ELSE events[c]]
        /\ owed' = [c \in Client |-> IF c \in {x \in Client : Wants(x, msg.ch)}
                                    THEN owed[c] \cup {a} ELSE owed[c]]
        /\ feed' = IF msg.ch = Status THEN msg.v ELSE feed
        /\ UNCHANGED pending
    BY <1>2, <1>5 DEF Dispatch, QueueAlert
  <2>3. QED
    BY <1>1, <1>5, <2>1, <2>2
<1>6. QED
  BY <1>3, <1>4, <1>5

(* A copy of a version is a number.                                        *)
LEMMA CopiesAreNumbers ==
  ASSUME TypeOK
  PROVE  \A c \in Client, x \in Channel :
            pending[c][x] \in Nat /\ batch[c][x] \in Nat /\ snap[c][x] \in Nat
            /\ shown[c][x] \in Nat
BY DEF TypeOK, QueueOK, TasksOK, BrowserOK, Version

(* No copy gets ahead of Redis.                                            *)
LEMMA AheadStep ==
  ASSUME TypeOK, TypeOK', WireOK, NotAhead, [Next]_vars
  PROVE  NotAhead'
<1>1. /\ \A x \in Channel : price[x] \in Nat /\ price'[x] \in Nat
      /\ feed \in Nat /\ Status \in Channel
      /\ \A c \in Client, x \in Channel :
            pending[c][x] \in Nat /\ batch[c][x] \in Nat /\ snap[c][x] \in Nat
            /\ shown[c][x] \in Nat
  <2>1. \A x \in Channel : price[x] \in Nat /\ price'[x] \in Nat
    BY DEF TypeOK, RedisOK, Version
  <2>2. feed \in Nat /\ Status \in Channel
    BY DEF TypeOK, RedisOK, Channel
  <2>3. QED
    BY <2>1, <2>2, CopiesAreNumbers
<1>2. CASE UNCHANGED <<pending, batch, snap, shown, feed>> /\ \A x \in Channel : price[x] <= price'[x]
  BY <1>1, <1>2 DEF NotAhead, NotAheadAt
<1>3. CASE Dispatch
  <2>1. UNCHANGED <<price, batch, snap, shown>>
    BY <1>3, DispatchTakes
  <2>2. feed' <= price[Status] /\
        \A c \in Client, ch \in Channel : pending'[c][ch] <= price[ch]
    BY <1>1, <1>3, DispatchTakes DEF NotAhead, NotAheadAt
  <2>3. QED
    BY <2>1, <2>2 DEF NotAhead, NotAheadAt
<1>4. ASSUME NEW c \in Client, ClientStep(c)
      PROVE  NotAhead'
  <2>1. UNCHANGED <<price, feed>>
    BY <1>4, ClientsOnlyRead
  <2>2. ASSUME NEW d \in Client, NEW ch \in Channel
        PROVE  NotAheadAt(d, ch)'
    <3>1. NotAheadAt(d, ch) /\ feed <= price[Status]
      BY DEF NotAhead
    <3>2. CASE d = c
      BY <1>1, <1>4, <2>1, <3>1, <3>2, CopiesMoveOn DEF NotAheadAt
    <3>3. CASE d # c
      BY <1>4, <2>1, <3>1, <3>3, OthersUntouched DEF NotAheadAt
    <3>4. QED
      BY <3>2, <3>3
  <2>3. QED
    BY <2>1, <2>2 DEF NotAhead
<1>5. UNCHANGED vars \/ Relink \/ Outage \/ (\E s \in Symbol : PublishAlert(s)) =>
        UNCHANGED <<pending, batch, snap, shown, feed, price>>
  BY DEF vars, redis, Relink, Outage, PublishAlert, queue, tasks, browser
<1>6. ASSUME NEW ch \in Channel, PublishTick(ch)
      PROVE  /\ UNCHANGED <<pending, batch, snap, shown, feed>>
             /\ \A x \in Channel : price[x] <= price'[x]
  <2>1. UNCHANGED <<pending, batch, snap, shown, feed>>
    BY <1>6 DEF PublishTick, queue, tasks, browser
  <2>2. /\ price[ch] \in Nat
        /\ \A x \in Channel : price'[x] = IF x = ch THEN price[ch] + 1 ELSE price[x]
    BY <1>6, TickPublished
  <2>3. QED
    BY <1>1, <2>1, <2>2
<1>7. QED
  BY <1>1, <1>2, <1>3, <1>4, <1>5, <1>6 DEF Next, ClientStep

(* The newest version stays on its way to a browser through every step of  *)
(* that browser's own connection.                                          *)
LEMMA ServedByOwnStep ==
  ASSUME TypeOK, NotAhead, OnlyWantedIsQueued, NewestIsComing,
         NEW c \in Client, ClientStep(c), NEW ch \in Channel
  PROVE  Served(c, ch)'
<1>1. /\ UNCHANGED <<price, wire, feed>> /\ UnderWay(ch)' = UnderWay(ch)
      /\ Served(c, ch) /\ (UnderWay(Status) \/ feed = price[Status])
      /\ NotAheadAt(c, ch)
  BY ClientsOnlyRead DEF UnderWay, ValueAt, NewestIsComing, NotAhead
<1>2. /\ pending[c] \in [Channel -> Nat] /\ batch[c] \in [Channel -> Nat]
      /\ snap[c] \in [Channel -> Nat] /\ shown[c] \in [Channel -> Nat]
      /\ price \in [Channel -> Nat]
      /\ lock[c] = "writer" <=> writer[c] = "send"
      /\ lock[c] = "reader" <=> reader[c] \in {"read", "send"}
      /\ symbols[c] \subseteq Symbol /\ asked[c] \subseteq Symbol
  BY DEF TypeOK, RedisOK, QueueOK, TasksOK, BrowserOK, Version, LockOK
<1> SUFFICES ASSUME Wants(c, ch)', ~UnderWay(ch)
             PROVE  /\ pending'[c][ch] \in {0, price[ch]}
                    /\ \/ Coming(c, ch)' = price[ch]
                       \/ reader'[c] = "read" /\ ch \in asked'[c]
  BY <1>1 DEF Served
<1>3. CASE Open(c)
  <2>1. /\ symbols'[c] = {} /\ pending'[c] = Nothing /\ writer'[c] = "wait"
        /\ reader'[c] = "receive" /\ shown'[c] = [shown[c] EXCEPT ![Status] = feed]
    BY <1>3 DEF Open, TypeOK, QueueOK, TasksOK, BrowserOK
  <2>2. ch = Status
    BY <2>1 DEF Wants
  <2>3. pending'[c][ch] = 0 /\ shown'[c][ch] = price[ch]
    BY <1>1, <1>2, <2>1, <2>2 DEF Nothing
  <2>4. QED
    BY <2>1, <2>3 DEF Coming
<1>4. CASE Disconnect(c) \/ ReaderHearsClose(c) \/ DropBacklog(c) \/ SendTimesOut(c)
  <2>1. life'[c] # "open"
    BY <1>4 DEF Disconnect, ReaderHearsClose, EndSession, DropBacklog, SendTimesOut,
                DropSlowClient, TypeOK
  <2>2. QED
    BY <2>1 DEF Wants
<1>5. CASE Stall(c) \/ Recover(c)
  <2>1. UNCHANGED <<life, symbols, pending, writer, batch, reader, asked, snap, shown>>
    BY <1>5 DEF Stall, Recover, queue, tasks, browser
  <2>2. QED
    BY <1>1, <2>1 DEF Served, Coming, Wants
<1>6. ASSUME NEW syms \in SUBSET Symbol \ {{}}, Subscribe(c, syms)
      PROVE  /\ pending'[c][ch] \in {0, price[ch]}
             /\ \/ Coming(c, ch)' = price[ch]
                \/ reader'[c] = "read" /\ ch \in asked'[c]
  <2>1. UNCHANGED <<life, symbols, pending, writer, batch, snap, shown>> /\ reader[c] = "receive"
    BY <1>6 DEF Subscribe, queue, browser
  <2>2. reader'[c] = "lock"
    BY <1>6 DEF Subscribe, TypeOK, TasksOK
  <2>3. QED
    BY <1>1, <2>1, <2>2 DEF Served, Coming, Wants
<1>7. ASSUME NEW syms \in SUBSET Symbol \ {{}}, Unsubscribe(c, syms)
      PROVE  /\ pending'[c][ch] \in {0, price[ch]}
             /\ \/ Coming(c, ch)' = price[ch]
                \/ reader'[c] = "read" /\ ch \in asked'[c]
  <2>1. /\ UNCHANGED <<life, writer, batch, reader, asked, snap, shown>>
        /\ symbols'[c] = symbols[c] \ syms /\ pending'[c] = Unqueued(c, syms)
    BY <1>7 DEF Unsubscribe, TypeOK, QueueOK, tasks, browser
  <2>2. Wants(c, ch) /\ ch \notin syms
    BY <2>1 DEF Wants
  <2>3. pending'[c][ch] = pending[c][ch]
    BY <2>1, <2>2 DEF Unqueued
  <2>4. QED
    BY <1>1, <2>1, <2>2, <2>3 DEF Served, Coming
<1>8. CASE StartSnapshot(c)
  <2>1. /\ UNCHANGED <<life, pending, writer, batch, asked, snap, shown>>
        /\ symbols'[c] = symbols[c] \cup asked[c] /\ reader'[c] = "read"
        /\ reader[c] = "lock"
    BY <1>8 DEF StartSnapshot, TypeOK, QueueOK, TasksOK, browser
  <2>2. CASE Wants(c, ch)
    BY <1>1, <2>1, <2>2 DEF Served, Coming
  <2>3. CASE ~Wants(c, ch)
    <3>1. life[c] = "open" /\ ch \in asked[c] /\ ch \notin symbols[c] /\ ch \in Symbol
      BY <1>2, <2>1, <2>3 DEF Wants
    <3>2. pending[c][ch] = 0
      BY <3>1 DEF OnlyWantedIsQueued
    <3>3. QED
      BY <2>1, <3>1, <3>2
  <2>4. QED
    BY <2>2, <2>3
<1>9. CASE ReadSnapshot(c)
  <2>1. /\ UNCHANGED <<life, symbols, pending, writer, batch, asked, shown>>
        /\ snap'[c] = [x \in Channel |-> IF x \in asked[c] THEN price[x] ELSE 0]
        /\ reader'[c] = "send" /\ reader[c] = "read"
    BY <1>9 DEF ReadSnapshot, TypeOK, TasksOK, queue, browser
  <2>2. snap'[c][ch] = IF ch \in asked[c] THEN price[ch] ELSE 0
    BY <2>1
  <2>3. Wants(c, ch) /\ writer[c] # "send"
    BY <1>2, <2>1 DEF Wants
  <2>4. CASE ch \in asked[c]
    <3>1. price[ch] = 0 => shown[c][ch] = 0
      BY <1>1, <1>2 DEF NotAheadAt
    <3>2. QED
      BY <1>1, <2>1, <2>2, <2>3, <2>4, <3>1 DEF Served, Coming
  <2>5. CASE ch \notin asked[c]
    BY <1>1, <2>1, <2>2, <2>3, <2>5 DEF Served, Coming
  <2>6. QED
    BY <2>4, <2>5
<1>10. CASE AwaitLock(c)
  <2>1. /\ UNCHANGED <<life, symbols, pending, batch, reader, asked, snap, shown>>
        /\ writer'[c] = "lock" /\ writer[c] = "wait"
    BY <1>10 DEF AwaitLock, TypeOK, TasksOK, queue, browser
  <2>2. QED
    BY <1>1, <2>1 DEF Served, Coming, Wants
<1>11. CASE SendSnapshot(c)
  <2>1. /\ UNCHANGED <<life, symbols, pending, writer, batch, asked, snap>>
        /\ reader'[c] = "receive" /\ reader[c] = "send"
        /\ shown'[c] = [x \in Channel |-> IF snap[c][x] # 0 THEN snap[c][x] ELSE shown[c][x]]
    BY <1>11 DEF SendSnapshot, Painted, TypeOK, TasksOK, BrowserOK, queue
  <2>2. shown'[c][ch] = IF snap[c][ch] # 0 THEN snap[c][ch] ELSE shown[c][ch]
    BY <2>1
  <2>3. QED
    BY <1>1, <1>2, <2>1, <2>2 DEF Served, Coming, Wants
<1>12. CASE SendBatch(c)
  <2>1. /\ UNCHANGED <<life, symbols, pending, reader, asked, snap>>
        /\ writer'[c] = "wait" /\ writer[c] = "send"
        /\ shown'[c] = [x \in Channel |-> IF batch[c][x] # 0 THEN batch[c][x] ELSE shown[c][x]]
    BY <1>12 DEF SendBatch, Painted, TypeOK, TasksOK, BrowserOK, queue
  <2>2. shown'[c][ch] = IF batch[c][ch] # 0 THEN batch[c][ch] ELSE shown[c][ch]
    BY <2>1
  <2>3. reader[c] \notin {"read", "send"}
    BY <1>2, <2>1
  <2>4. QED
    BY <1>1, <2>1, <2>2, <2>3 DEF Served, Coming, Wants
<1>13. CASE Wake(c) \/ TakeLock(c)
  <2>1. /\ UNCHANGED <<life, symbols, reader, asked, snap, shown>>
        /\ pending'[c] = Nothing /\ batch'[c] = pending[c]
        /\ writer'[c] = IF Queued(c) THEN "send" ELSE "wait"
        /\ lock[c] = "free" /\ writer[c] \in {"wait", "lock"}
    BY <1>13 DEF Wake, TakeLock, DrainAndSend, TypeOK, QueueOK, TasksOK, browser
  <2>2. pending'[c][ch] = 0 /\ batch'[c][ch] = pending[c][ch]
    BY <2>1 DEF Nothing
  <2>3. ~Queued(c) => pending[c][ch] = 0
    BY DEF Queued, Nothing
  <2>4. reader[c] \notin {"read", "send"}
    BY <1>2, <2>1
  <2>5. QED
    BY <1>1, <2>1, <2>2, <2>3, <2>4 DEF Served, Coming, Wants
<1>14. QED
  BY <1>3, <1>4, <1>5, <1>6, <1>7, <1>8, <1>9, <1>10, <1>11, <1>12, <1>13
     DEF ClientStep, ReaderStep, WriterStep

(* A published tick is under way, behind everything older.                 *)
LEMMA ComingAfterTick ==
  ASSUME TypeOK, NewestIsComing, NEW x \in Channel, PublishTick(x)
  PROVE  NewestIsComing'
<1>1. /\ linked /\ linked' /\ Published(TickMessage(x)) /\ price[x] \in Nat
      /\ \A ch \in Channel : price'[ch] = IF ch = x THEN price[x] + 1 ELSE price[ch]
      /\ UNCHANGED <<feed, life, symbols, pending, writer, batch, reader, asked, snap, shown>>
  BY TickPublished DEF NewestIsComing, PublishTick, queue, tasks, browser
<1>2. PICK n \in DOMAIN wire' :
      /\ wire'[n] = TickMessage(x)
      /\ \A i \in DOMAIN wire : i \in DOMAIN wire' /\ wire'[i] = wire[i] /\ i < n
      /\ \A i \in DOMAIN wire' : i \in DOMAIN wire \/ i = n
  BY <1>1 DEF Published
<1>3. \A i \in DOMAIN wire, ch \in Channel : ValueAt(i, ch)' <=> ValueAt(i, ch)
  BY <1>2 DEF ValueAt
<1>4. ValueAt(n, x)' /\ \A ch \in Channel : ValueAt(n, ch)' => ch = x
  BY <1>2 DEF ValueAt, TickMessage
<1>5. LastIsNewest'
  <2> SUFFICES ASSUME NEW i \in DOMAIN wire', NEW ch \in Channel, ValueAt(i, ch)',
                      wire'[i].v # price'[ch]
               PROVE  \E j \in DOMAIN wire' : i < j /\ ValueAt(j, ch)'
    BY DEF LastIsNewest
  <2>1. CASE ch = x /\ i \in DOMAIN wire
    BY <1>2, <1>4, <2>1
  <2>2. CASE i = n
    <3>1. ch = x /\ wire'[n].v = price[x] + 1
      BY <1>2, <1>4, <2>2 DEF TickMessage
    <3>2. QED
      BY <1>1, <2>2, <3>1
  <2>3. CASE ch # x /\ i \in DOMAIN wire
    <3>1. ValueAt(i, ch) /\ wire[i].v # price[ch]
      BY <1>1, <1>2, <1>3, <2>3
    <3>2. PICK j \in DOMAIN wire : i < j /\ ValueAt(j, ch)
      BY <2>3, <3>1 DEF NewestIsComing, LastIsNewest
    <3>3. QED
      BY <1>2, <1>3, <3>2
  <2>4. QED
    BY <1>2, <2>1, <2>2, <2>3
<1>6. UnderWay(x)' /\ \A ch \in Channel : UnderWay(ch) => UnderWay(ch)'
  BY <1>2, <1>3, <1>4 DEF UnderWay
<1>7. UnderWay(Status)' \/ feed' = price'[Status]
  BY <1>1, <1>6 DEF NewestIsComing, Channel
<1>8. ASSUME NEW c \in Client, NEW ch \in Channel
      PROVE  Served(c, ch)'
  <2>1. Served(c, ch)
    BY DEF NewestIsComing
  <2>2. CASE ch = x
    BY <1>6, <2>2 DEF Served
  <2>3. CASE ch # x
    BY <1>1, <1>6, <2>1, <2>3 DEF Served, Coming, Wants
  <2>4. QED
    BY <2>2, <2>3
<1>9. QED
  BY <1>1, <1>5, <1>7, <1>8 DEF NewestIsComing

(* A published transition changes nothing about the prices.                *)
LEMMA ComingAfterAlert ==
  ASSUME TypeOK, NewestIsComing, NEW s \in Symbol, PublishAlert(s)
  PROVE  NewestIsComing'
<1>1. /\ linked /\ linked' /\ Published(AlertMessage(s)) /\ price' = price
      /\ UNCHANGED <<feed, life, symbols, pending, writer, batch, reader, asked, snap, shown>>
  BY AlertPublished DEF NewestIsComing, PublishAlert, queue, tasks, browser
<1>2. /\ \A i \in DOMAIN wire : i \in DOMAIN wire' /\ wire'[i] = wire[i]
      /\ \A i \in DOMAIN wire' : i \in DOMAIN wire \/ wire'[i].kind # "value"
  BY <1>1 DEF Published, AlertMessage
<1>3. /\ \A i \in DOMAIN wire, ch \in Channel : ValueAt(i, ch)' <=> ValueAt(i, ch)
      /\ \A i \in DOMAIN wire', ch \in Channel : ValueAt(i, ch)' => i \in DOMAIN wire
  BY <1>2 DEF ValueAt
<1>4. LastIsNewest'
  BY <1>1, <1>2, <1>3 DEF NewestIsComing, LastIsNewest
<1>5. \A ch \in Channel : UnderWay(ch)' <=> UnderWay(ch)
  BY <1>2, <1>3 DEF UnderWay
<1>6. \A c \in Client, ch \in Channel : Served(c, ch)'
  BY <1>1, <1>5 DEF NewestIsComing, Served, Coming, Wants
<1>7. QED
  BY <1>1, <1>4, <1>5, <1>6 DEF NewestIsComing, Channel

(* The router: the last message of a channel brings its newest version.    *)
LEMMA ComingAfterDispatch ==
  ASSUME TypeOK, WireOK, NewestIsComing, Dispatch
  PROVE  NewestIsComing'
<1> DEFINE msg == wire[1]
<1>1. /\ UNCHANGED <<price, linked, life, symbols, writer, batch, reader, asked, snap, shown>>
      /\ IF msg.kind = "value"
         THEN /\ msg.ch \in Channel /\ msg.v \in 1..price[msg.ch]
              /\ \A c \in Client, ch \in Channel : pending'[c][ch] =
                    IF ch = msg.ch /\ Wants(c, ch) THEN msg.v ELSE pending[c][ch]
              /\ feed' = IF msg.ch = Status THEN msg.v ELSE feed
         ELSE UNCHANGED <<pending, feed>>
  BY DispatchTakes
<1>2. /\ DOMAIN wire = 1..Len(wire) /\ Len(wire) \in Nat \ {0}
      /\ DOMAIN wire' = 1..(Len(wire) - 1)
      /\ \A i \in DOMAIN wire' : wire'[i] = wire[i + 1] /\ i + 1 \in DOMAIN wire
  BY TailShifts DEF Dispatch, TypeOK, RedisOK, Message
<1>3. /\ \A i \in DOMAIN wire', ch \in Channel : ValueAt(i, ch)' <=> ValueAt(i + 1, ch)
      /\ \A i \in DOMAIN wire : i = 1 \/ (i - 1 \in DOMAIN wire' /\ (i - 1) + 1 = i)
  BY <1>2 DEF ValueAt
<1>4. \A ch \in Channel : UnderWay(ch) => UnderWay(ch)' \/ ValueAt(1, ch)
  BY <1>3 DEF UnderWay
<1>5. LastIsNewest'
  <2> SUFFICES ASSUME NEW i \in DOMAIN wire', NEW ch \in Channel, ValueAt(i, ch)',
                      wire'[i].v # price[ch]
               PROVE  \E j \in DOMAIN wire' : i < j /\ ValueAt(j, ch)'
    BY <1>1 DEF LastIsNewest
  <2>1. ValueAt(i + 1, ch) /\ wire[i + 1].v # price[ch] /\ i + 1 \in DOMAIN wire
    BY <1>2, <1>3
  <2>2. PICK j \in DOMAIN wire : i + 1 < j /\ ValueAt(j, ch)
    BY <2>1 DEF NewestIsComing, LastIsNewest
  <2>3. j - 1 \in DOMAIN wire' /\ i < j - 1 /\ (j - 1) + 1 = j
    BY <1>2, <2>2
  <2>4. ValueAt(j - 1, ch)'
    BY <1>3, <2>2, <2>3
  <2>5. QED
    BY <2>3, <2>4
<1>6. \A ch \in Channel : ValueAt(1, ch) /\ ~UnderWay(ch)' => msg.v = price[ch]
  <2> SUFFICES ASSUME NEW ch \in Channel, ValueAt(1, ch), msg.v # price[ch]
               PROVE  UnderWay(ch)'
    OBVIOUS
  <2>1. PICK j \in DOMAIN wire : 1 < j /\ ValueAt(j, ch)
    BY <1>2 DEF NewestIsComing, LastIsNewest
  <2>2. j - 1 \in DOMAIN wire' /\ (j - 1) + 1 = j
    BY <1>2, <2>1
  <2>3. ValueAt(j - 1, ch)'
    BY <1>3, <2>1, <2>2
  <2>4. QED
    BY <2>2, <2>3 DEF UnderWay
<1>7. \A ch \in Channel : ValueAt(1, ch) <=> msg.kind = "value" /\ msg.ch = ch
  BY <1>2 DEF ValueAt
<1> HIDE DEF msg
<1>8. UnderWay(Status)' \/ feed' = price'[Status]
  <2>1. Status \in Channel
    BY DEF Channel
  <2>2. CASE ValueAt(1, Status)
    BY <1>1, <1>6, <1>7, <2>1, <2>2
  <2>3. CASE ~ValueAt(1, Status)
    BY <1>1, <1>4, <1>7, <2>1, <2>3 DEF NewestIsComing
  <2>4. QED
    BY <2>2, <2>3
<1>9. ASSUME NEW c \in Client, NEW ch \in Channel
      PROVE  Served(c, ch)'
  <2> SUFFICES ASSUME Wants(c, ch), ~UnderWay(ch)'
               PROVE  /\ pending'[c][ch] \in {0, price[ch]}
                      /\ Coming(c, ch)' = price[ch] \/ (reader[c] = "read" /\ ch \in asked[c])
    BY <1>1 DEF Served, Wants
  <2>1. CASE ValueAt(1, ch)
    <3>1. pending'[c][ch] = price[ch] /\ price[ch] # 0
      BY <1>1, <1>6, <1>7, <2>1
    <3>2. QED
      BY <3>1 DEF Coming
  <2>2. CASE ~ValueAt(1, ch)
    <3>1. ~UnderWay(ch) /\ Served(c, ch)
      BY <1>4, <2>2 DEF NewestIsComing
    <3>2. pending'[c][ch] = pending[c][ch]
      BY <1>1, <1>7, <2>2
    <3>3. QED
      BY <1>1, <3>1, <3>2 DEF Served, Coming
  <2>3. QED
    BY <2>1, <2>2
<1>10. QED
  BY <1>1, <1>5, <1>8, <1>9 DEF NewestIsComing

(* Without an outage, the newest version stays on its way to every browser.*)
LEMMA ComingStep ==
  ASSUME TypeOK, WireOK, NotAhead, OnlyWantedIsQueued, outages = 0 => NewestIsComing,
         [Next]_vars, outages' = 0
  PROVE  NewestIsComing'
<1>1. ~Outage
  BY DEF Outage, TypeOK, BudgetsOK
<1>2. outages = 0
  BY <1>1, DispatchTakes, ClientsOnlyRead DEF Next, ClientStep, Relink, PublishTick,
     PublishAlert, budgets, vars
<1>3. NewestIsComing
  BY <1>2
<1>4. CASE UNCHANGED vars
  BY <1>3, <1>4 DEF vars, redis, queue, tasks, browser, NewestIsComing, LastIsNewest, UnderWay,
                    ValueAt, Served, Coming, Wants
<1>5. ~Relink
  BY <1>3 DEF Relink, NewestIsComing
<1>6. ASSUME NEW c \in Client, ClientStep(c)
      PROVE  NewestIsComing'
  <2>1. UNCHANGED <<price, wire, linked, feed>>
    BY <1>6, ClientsOnlyRead
  <2>2. ASSUME NEW d \in Client, NEW ch \in Channel
        PROVE  Served(d, ch)'
    <3>1. CASE d = c
      BY <1>3, <1>6, <3>1, ServedByOwnStep
    <3>2. CASE d # c
      <4>1. Served(d, ch)
        BY <1>3 DEF NewestIsComing
      <4>2. /\ life'[d] = life[d] /\ symbols'[d] = symbols[d] /\ pending'[d] = pending[d]
            /\ writer'[d] = writer[d] /\ batch'[d] = batch[d] /\ reader'[d] = reader[d]
            /\ asked'[d] = asked[d] /\ snap'[d] = snap[d] /\ shown'[d] = shown[d]
        BY <1>6, <3>2, OthersUntouched
      <4>3. QED
        BY <2>1, <4>1, <4>2 DEF Served, Coming, Wants, UnderWay, ValueAt
    <3>3. QED
      BY <3>1, <3>2
  <2>3. QED
    BY <1>3, <2>1, <2>2 DEF NewestIsComing, LastIsNewest, UnderWay, ValueAt
<1>7. QED
  BY <1>1, <1>3, <1>4, <1>5, <1>6, ComingAfterTick, ComingAfterAlert, ComingAfterDispatch
     DEF Next, ClientStep

(* The queue of a connection holds only what its client wants, whatever the*)
(* client's own tasks do.                                                  *)
LEMMA QueueByOwnStep ==
  ASSUME TypeOK, OnlyWantedIsQueued, NEW c \in Client, ClientStep(c), NEW s \in Symbol,
         life'[c] = "open", pending'[c][s] # 0
  PROVE  s \in symbols'[c]
<1>1. s \in Channel /\ (life[c] = "open" /\ pending[c][s] # 0 => s \in symbols[c])
  BY DEF OnlyWantedIsQueued, Channel
<1>2. CASE Open(c)
  BY <1>1, <1>2 DEF Open, Nothing, TypeOK, QueueOK
<1>3. CASE Disconnect(c) \/ ReaderHearsClose(c) \/ DropBacklog(c) \/ SendTimesOut(c)
  BY <1>3 DEF Disconnect, ReaderHearsClose, EndSession, DropBacklog, SendTimesOut,
              DropSlowClient, TypeOK
<1>4. CASE Wake(c) \/ TakeLock(c)
  BY <1>1, <1>4 DEF Wake, TakeLock, DrainAndSend, Nothing, TypeOK, QueueOK
<1>5. ASSUME NEW syms \in SUBSET Symbol \ {{}}, Unsubscribe(c, syms)
      PROVE  s \in symbols'[c]
  BY <1>1, <1>5 DEF Unsubscribe, Unqueued, TypeOK, QueueOK
<1>6. CASE StartSnapshot(c)
  BY <1>1, <1>6 DEF StartSnapshot, TypeOK, QueueOK
<1>7. CASE UNCHANGED <<life, symbols, pending>>
  BY <1>1, <1>7
<1>8. Stall(c) \/ Recover(c) \/ ReadSnapshot(c) \/ SendSnapshot(c) \/ AwaitLock(c)
      \/ SendBatch(c) \/ (\E syms \in SUBSET Symbol \ {{}} : Subscribe(c, syms))
        => UNCHANGED <<life, symbols, pending>>
  BY DEF Stall, Recover, ReadSnapshot, SendSnapshot, AwaitLock, SendBatch, Subscribe, queue
<1>9. QED
  BY <1>2, <1>3, <1>4, <1>5, <1>6, <1>7, <1>8 DEF ClientStep, ReaderStep, WriterStep

(* No step queues a price that its client does not want.                   *)
LEMMA QueueStep ==
  ASSUME TypeOK, WireOK, OnlyWantedIsQueued, [Next]_vars
  PROVE  OnlyWantedIsQueued'
<1>1. CASE UNCHANGED <<life, symbols, pending>>
  BY <1>1 DEF OnlyWantedIsQueued
<1>2. CASE Dispatch
  <2>1. /\ UNCHANGED <<life, symbols>>
        /\ IF wire[1].kind = "value"
           THEN \A c \in Client, ch \in Channel : pending'[c][ch] =
                    IF ch = wire[1].ch /\ Wants(c, ch) THEN wire[1].v ELSE pending[c][ch]
           ELSE UNCHANGED pending
    BY <1>2, DispatchTakes
  <2>2. \A s \in Symbol : s \in Channel /\ s # Status
    BY DEF Channel
  <2>3. QED
    BY <2>1, <2>2 DEF OnlyWantedIsQueued, Wants
<1>3. ASSUME NEW c \in Client, ClientStep(c)
      PROVE  OnlyWantedIsQueued'
  <2> SUFFICES ASSUME NEW d \in Client, NEW s \in Symbol, life'[d] = "open", pending'[d][s] # 0
               PROVE  s \in symbols'[d]
    BY DEF OnlyWantedIsQueued
  <2>1. CASE d = c
    BY <1>3, <2>1, QueueByOwnStep
  <2>2. CASE d # c
    <3>1. life'[d] = life[d] /\ symbols'[d] = symbols[d] /\ pending'[d] = pending[d]
      BY <1>3, <2>2, OthersUntouched
    <3>2. QED
      BY <3>1 DEF OnlyWantedIsQueued
  <2>3. QED
    BY <2>1, <2>2
<1>4. UNCHANGED vars \/ Relink \/ Outage \/ (\E s \in Symbol : PublishAlert(s))
      \/ (\E ch \in Channel : PublishTick(ch)) => UNCHANGED <<life, symbols, pending>>
  BY DEF vars, Relink, Outage, PublishAlert, PublishTick, queue
<1>5. QED
  BY <1>1, <1>2, <1>3, <1>4 DEF Next, ClientStep

(* A transition that is owed stays queued, in the batch, or told, through  *)
(* every step of its own connection.                                       *)
OnItsWay(c) ==
  life[c] = "open" =>
      owed[c] \subseteq told[c] \cup events[c] \cup (IF writer[c] = "send" THEN news[c] ELSE {})

LEMMA OwedByOwnStep ==
  ASSUME TypeOK, NEW c \in Client, OnItsWay(c), ClientStep(c)
  PROVE  OnItsWay(c)'
<1>1. CASE Open(c)
  BY <1>1 DEF Open, OnItsWay, TypeOK, BrowserOK
<1>2. CASE Disconnect(c) \/ ReaderHearsClose(c) \/ DropBacklog(c) \/ SendTimesOut(c)
  BY <1>2 DEF Disconnect, ReaderHearsClose, EndSession, DropBacklog, SendTimesOut,
              DropSlowClient, TypeOK, OnItsWay
<1>3. CASE Wake(c) \/ TakeLock(c)
  <2>1. /\ UNCHANGED <<life, told, owed>> /\ events'[c] = {} /\ news'[c] = events[c]
        /\ writer'[c] = IF Queued(c) THEN "send" ELSE "wait"
        /\ writer[c] # "send"
    BY <1>3 DEF Wake, TakeLock, DrainAndSend, TypeOK, QueueOK, TasksOK, browser
  <2>2. ~Queued(c) => events[c] = {}
    BY DEF Queued
  <2>3. QED
    BY <2>1, <2>2 DEF OnItsWay
<1>4. CASE SendBatch(c)
  <2>1. /\ UNCHANGED <<life, owed, events>> /\ writer'[c] = "wait" /\ writer[c] = "send"
        /\ told'[c] = told[c] \cup news[c]
    BY <1>4 DEF SendBatch, TypeOK, TasksOK, BrowserOK, queue
  <2>2. QED
    BY <2>1 DEF OnItsWay
<1>5. CASE AwaitLock(c)
  <2>1. UNCHANGED <<life, owed, events, told, news>> /\ writer[c] = "wait" /\ writer'[c] = "lock"
    BY <1>5 DEF AwaitLock, TypeOK, TasksOK, queue, browser
  <2>2. QED
    BY <2>1 DEF OnItsWay
<1>6. CASE UNCHANGED <<life, owed, events, told, news, writer>>
  BY <1>6 DEF OnItsWay
<1>7. Stall(c) \/ Recover(c) \/ StartSnapshot(c) \/ ReadSnapshot(c) \/ SendSnapshot(c)
      \/ (\E syms \in SUBSET Symbol \ {{}} : Subscribe(c, syms) \/ Unsubscribe(c, syms))
        => UNCHANGED <<life, owed, events, told, news, writer>>
  BY DEF Stall, Recover, StartSnapshot, ReadSnapshot, SendSnapshot, Subscribe, Unsubscribe,
         queue, tasks, browser
<1>8. QED
  BY <1>1, <1>2, <1>3, <1>4, <1>5, <1>6, <1>7 DEF ClientStep, ReaderStep, WriterStep

(* And through every other step: the router queues what it owes.           *)
LEMMA OwedStep ==
  ASSUME TypeOK, WireOK, AlertsOnTheirWay, [Next]_vars
  PROVE  AlertsOnTheirWay'
<1>1. \A c \in Client : OnItsWay(c)
  BY DEF AlertsOnTheirWay, OnItsWay
<1>2. CASE Dispatch
  <2>1. /\ UNCHANGED <<life, told, news, writer>>
        /\ \A c \in Client : \/ events'[c] = events[c] /\ owed'[c] = owed[c]
                             \/ \E a \in Alert : /\ events'[c] = events[c] \cup {a}
                                                 /\ owed'[c] = owed[c] \cup {a}
    BY <1>2, DispatchTakes
  <2>2. ASSUME NEW c \in Client
        PROVE  OnItsWay(c)'
    BY <1>1, <2>1 DEF OnItsWay
  <2>3. QED
    BY <2>2 DEF AlertsOnTheirWay, OnItsWay
<1>3. ASSUME NEW c \in Client, ClientStep(c)
      PROVE  AlertsOnTheirWay'
  <2>1. ASSUME NEW d \in Client
        PROVE  OnItsWay(d)'
    <3>1. CASE d = c
      BY <1>1, <1>3, <3>1, OwedByOwnStep
    <3>2. CASE d # c
      <4>1. /\ life'[d] = life[d] /\ events'[d] = events[d] /\ writer'[d] = writer[d]
            /\ news'[d] = news[d] /\ told'[d] = told[d] /\ owed'[d] = owed[d]
        BY <1>3, <3>2, OthersUntouched
      <4>2. QED
        BY <1>1, <4>1 DEF OnItsWay
    <3>3. QED
      BY <3>1, <3>2
  <2>2. QED
    BY <2>1 DEF AlertsOnTheirWay, OnItsWay
<1>4. CASE UNCHANGED <<life, owed, events, told, news, writer>>
  BY <1>4 DEF AlertsOnTheirWay
<1>5. UNCHANGED vars \/ Relink \/ Outage \/ (\E s \in Symbol : PublishAlert(s))
      \/ (\E ch \in Channel : PublishTick(ch))
        => UNCHANGED <<life, owed, events, told, news, writer>>
  BY DEF vars, Relink, Outage, PublishAlert, PublishTick, queue, tasks, browser
<1>6. QED
  BY <1>2, <1>3, <1>4, <1>5 DEF Next, ClientStep

(* The replica starts with no session, no message and no version.          *)
LEMMA GatewayStarts ==
  ASSUME Init
  PROVE  SessionInv /\ DeliveryInv /\ AlertsOnTheirWay
<1>1. Nothing \in Version /\ \A ch \in Channel : Nothing[ch] = 0
  BY DEF Nothing, Version
<1>2. wire \in Seq(Message) /\ DOMAIN wire = {}
  <2>1. wire = <<>>
    BY DEF Init
  <2>2. QED
    BY <2>1
<1>3. TypeOK
  <2>1. RedisOK
    BY <1>1, <1>2 DEF Init, RedisOK, Message
  <2>2. QueueOK /\ TasksOK /\ BrowserOK /\ LockOK
    BY <1>1 DEF Init, QueueOK, TasksOK, BrowserOK, LockOK
  <2>3. BudgetsOK
    BY DEF Init, BudgetsOK
  <2>4. QED
    BY <2>1, <2>2, <2>3 DEF Init, TypeOK
<1>4. OnlyWantedIsQueued /\ AlertsOnTheirWay
  BY DEF Init, OnlyWantedIsQueued, AlertsOnTheirWay
<1>5. WireOK /\ LastIsNewest
  BY <1>2 DEF WireOK, LastIsNewest
<1>6. NotAhead
  BY <1>1 DEF Init, NotAhead, NotAheadAt, Channel
<1>7. \A c \in Client, ch \in Channel : Served(c, ch)
  BY DEF Init, Served, Wants
<1>8. feed = price[Status] /\ linked
  BY <1>1 DEF Init, Channel
<1>9. QED
  BY <1>3, <1>4, <1>5, <1>6, <1>7, <1>8 DEF SessionInv, DeliveryInv, NewestIsComing

(* The inductive invariant of the gateway: whatever is on the wire was     *)
(* published, no copy is ahead of Redis, and without an outage the newest  *)
(* version of a wanted channel is under way, held by a task, or shown.     *)
LEMMA GatewayInductive == Spec => [](SessionInv /\ DeliveryInv /\ AlertsOnTheirWay)
<1> DEFINE Inv == SessionInv /\ DeliveryInv /\ AlertsOnTheirWay
<1>1. Init => Inv
  BY GatewayStarts
<1>2. Inv /\ [Next]_vars => Inv'
  <2> SUFFICES ASSUME Inv, [Next]_vars
               PROVE  Inv'
    OBVIOUS
  <2>1. /\ TypeOK /\ OnlyWantedIsQueued /\ WireOK /\ NotAhead /\ AlertsOnTheirWay
        /\ outages = 0 => NewestIsComing
    BY DEF SessionInv, DeliveryInv
  <2>2. TypeOK' /\ WireOK'
    BY <2>1, TypeStep, WireStep
  <2>3. NotAhead' /\ OnlyWantedIsQueued' /\ AlertsOnTheirWay'
    BY <2>1, <2>2, AheadStep, QueueStep, OwedStep
  <2>4. outages' = 0 => NewestIsComing'
    BY <2>1, ComingStep
  <2>5. QED
    BY <2>2, <2>3, <2>4 DEF SessionInv, DeliveryInv
<1> HIDE DEF Inv
<1>3. Spec => []Inv
  BY <1>1, <1>2, PTL DEF Spec
<1>4. QED
  BY <1>3 DEF Inv

(* A session's reader and writer take turns at its socket, what the queues *)
(* and frames carry are versions and transitions that were published, and  *)
(* no price is queued for a symbol its client does not want (conflator.py, *)
(* stream.py): for any number of clients and symbols.                      *)
THEOREM SessionsAreSound == Spec => []SessionInv
<1>1. SessionInv /\ DeliveryInv /\ AlertsOnTheirWay => SessionInv
  OBVIOUS
<1>2. QED
  BY <1>1, GatewayInductive, PTL

(* "Snapshot THEN delta ... no gap" (stream.py): a session at rest that    *)
(* lost no message shows the newest version of all it is subscribed to.    *)
THEOREM SnapshotLeavesNoGap == Spec => []ShowsTheLatest
<1>1. SessionInv /\ DeliveryInv /\ AlertsOnTheirWay => ShowsTheLatest
  <2> SUFFICES ASSUME SessionInv, DeliveryInv, NEW c \in Client, AtRest(c),
                      NEW ch \in symbols[c] \cup {Status}
               PROVE  shown[c][ch] = price[ch]
    BY DEF ShowsTheLatest
  <2>1. ch \in Channel /\ Wants(c, ch)
    BY DEF SessionInv, TypeOK, QueueOK, Channel, Wants, AtRest
  <2>2. ~UnderWay(ch)
    BY DEF AtRest, UnderWay, ValueAt
  <2>3. Served(c, ch)
    BY <2>1 DEF AtRest, DeliveryInv, NewestIsComing
  <2>4. pending[c][ch] = 0
    BY <2>1 DEF AtRest, Queued, Nothing
  <2>5. QED
    BY <2>1, <2>2, <2>3, <2>4 DEF Served, Coming, AtRest
<1>2. QED
  BY <1>1, GatewayInductive, PTL

(* ALERTS MUST NOT BE CONFLATED (manager.py): as long as its session is    *)
(* open, a transition queued for it was told, is queued or is being sent.  *)
THEOREM NoAlertIsConflated == Spec => []AlertsAreNotConflated
<1>1. SessionInv /\ DeliveryInv /\ AlertsOnTheirWay => AlertsAreNotConflated
  BY DEF AlertsOnTheirWay, AlertsAreNotConflated
<1>2. QED
  BY <1>1, GatewayInductive, PTL

============================================================================
