---------------------------- MODULE BrowserStore ----------------------------
(***************************************************************************)
(* What a browser tab shows of one pair: the store of                      *)
(* apps/web/src/lib/stream/store.ts with its book of minutes (minutes.ts), *)
(* fed by the frames of a socket (client.ts, hooks/useForexStream.ts) and  *)
(* by the history request of lib/useChartBars.ts.                          *)
(*                                                                         *)
(* A bar is the number of ticks it is made of: bars are cumulative, so a   *)
(* larger count is a wider range.  A report of zero ticks is the           *)
(* provider's own history of the minute, and None is no report.            *)
(* The server, the socket and the gateway's queue are the environment.     *)
(* Left out: the price and its paint, daily bars, the minute built by a    *)
(* server that sends no bars, and MINUTE_CAP, which two days of minutes    *)
(* reach.                                                                  *)
(***************************************************************************)
EXTENDS Integers, FiniteSets, Sequences

CONSTANTS SnapshotBars,     \* sealed minutes a snapshot holds (240)
          LastMinute, MaxTicks, MaxQueue, MaxOutages, MaxFaults   \* model bounds

ASSUME BrowserAssumption ==
    /\ {SnapshotBars, LastMinute, MaxTicks, MaxQueue} \subseteq Nat \ {0}
    /\ {MaxOutages, MaxFaults} \subseteq Nat

None    == -1
Minutes == 0..LastMinute
Counts  == None..MaxTicks

VARIABLES
    minute, ticks,      \* server: the minute in progress, its ticks so far
    history,            \* server: the sealed or recovered bar of each minute
    regime, seq,        \* server: the regime, and transitions so far
    provider,           \* server: the provider in use (1 and then 2)
    open, wants,        \* the socket is open; the server sends the pair's frames
    queue,              \* frames on their way, and what they will be
    hidden,             \* document.hidden
    known,              \* the store has a book for the pair
    book,               \* per minute: reports [sealed, recovered, provisional]
    forming,            \* the minute in progress as shown, or NoBar
    gen, loaded,        \* #gen and #loaded of the pair
    shown,              \* the regime shown, "none" before the first
    alerts,             \* seqs of the transitions listed
    feed,               \* the provider in the feed status, 0 before the first
    request,            \* the history request: none, failed, or [gen, at, bars] under way
    told,               \* history: a live regime was applied since the snapshot
    outages, faults     \* outages of the socket or the tab; other faults

server == <<minute, ticks, history, regime, seq, provider>>
link   == <<open, wants, queue, hidden>>
store  == <<known, book, forming, gen, loaded, shown, alerts, feed>>
vars   == <<server, link, store, request, told, outages, faults>>

NoReport  == [sealed |-> None, recovered |-> None, provisional |-> None]
NoRequest == [gen |-> None, at |-> None, bars |-> <<>>]
Failed    == [gen |-> None, at |-> 0, bars |-> <<>>]
NoBar     == [t |-> None, n |-> None]
EmptyBook == [t \in Minutes |-> NoReport]

-----------------------------------------------------------------------------
(* The book, minutes.ts.                                                   *)

Larger(a, b) == IF a >= b THEN a ELSE b

held(b, t)   == b[t] # NoReport
sealed(b, t) == b[t].sealed # None

Newest(b) == CHOOSE t \in {None} \cup Minutes :
    /\ t = None \/ held(b, t)
    /\ \A u \in Minutes : held(b, u) => u <= t

(* A minute as shown: the join of its reports.                             *)
Shown(b, f, t) ==
    Larger(Larger(b[t].sealed, b[t].recovered),
           Larger(b[t].provisional, IF f.t = t THEN f.n ELSE None))

(* put of a report from the server: a sealed one ends the provisional one. *)
put(b, t, n) ==
    IF n = 0 THEN [b EXCEPT ![t].recovered = 0]
    ELSE [b EXCEPT ![t].sealed = n, ![t].provisional = None]

(* Mutated: a minute that has ended is not held until its seal.            *)
provisional_not(b, bar) == b

provisional(b, bar) ==
    IF sealed(b, bar.t) THEN b ELSE [b EXCEPT ![bar.t].provisional = bar.n]

(* The bars of a snapshot or of the history request, a function from their *)
(* minutes; dropUnsealed drops provisional minutes among them they lack.   *)
PutAll(b, bars) ==
    LET from == CHOOSE t \in DOMAIN bars : \A u \in DOMAIN bars : t <= u
        to   == CHOOSE t \in DOMAIN bars : \A u \in DOMAIN bars : t >= u
    IN [t \in Minutes |->
          CASE t \in DOMAIN bars -> put(b, t, bars[t])[t]
            [] DOMAIN bars # {} /\ t >= from /\ t <= to -> [b[t] EXCEPT !.provisional = None]
            [] OTHER -> b[t]]

-----------------------------------------------------------------------------
(* The store, store.ts.  Operators give the new values of what a call      *)
(* changes: the book and the forming minute go together.                   *)

applyForming(p, bar) ==
    LET cur   == p.forming
        stale == cur # NoBar /\ (bar.t < cur.t \/ (bar.t = cur.t /\ bar.n < cur.n))
    IN IF stale \/ sealed(p.book, bar.t) THEN p
       ELSE [book    |-> IF cur # NoBar /\ bar.t > cur.t THEN provisional(p.book, cur) ELSE p.book,
             forming |-> bar]

sealMinute(p, bar) ==
    LET b    == put(p.book, bar.t, bar.n)
        f    == p.forming
        past == f # NoBar /\ f.t <= bar.t
    IN [book    |-> IF past /\ f.t < bar.t THEN provisional(b, f) ELSE b,
        forming |-> IF past THEN NoBar ELSE f]

mergeMinutes(p, bars) ==
    LET b == PutAll(p.book, bars)
        f == p.forming
    IN [book |-> b, forming |-> IF f # NoBar /\ sealed(b, f.t) THEN NoBar ELSE f]

(* Mutated: a snapshot never marks the pair.                               *)
LeavesHole_never(b, bars) == FALSE

(* A snapshot that does not reach back to the newest minute held.          *)
LeavesHole(b, bars) ==
    Newest(b) # None /\ DOMAIN bars # {} /\ \A t \in DOMAIN bars : t > Newest(b)

Pair == [book |-> book, forming |-> forming]

ShowMinutes(p) == book' = p.book /\ forming' = p.forming /\ known' = TRUE

(* A new generation: the effect of useMinuteHistory runs again, and its    *)
(* clean-up discards the request under way.                                *)
NewGeneration == gen' = gen + 1 /\ request' = NoRequest
SameGeneration == UNCHANGED <<gen, request>>

-----------------------------------------------------------------------------
(* The frames of a socket, useForexStream.ts.                              *)

OnTick(f) ==
    /\ ShowMinutes(applyForming(Pair, f.bar))
    /\ SameGeneration
    /\ UNCHANGED <<loaded, shown, alerts, feed, told>>

(* sealMinute, then setVol: its regime is shown.                           *)
OnVol(f) ==
    /\ ShowMinutes(sealMinute(Pair, f.bar))
    /\ shown' = f.regime /\ told' = TRUE
    /\ SameGeneration
    /\ UNCHANGED <<loaded, alerts, feed>>

(* Mutated: a transition delivered again counts again.                     *)
IsNew_always(s) == TRUE

(* #recordAlert: delivery is at least once.                                *)
IsNew(s) == s \notin alerts

OnAlert(f) ==
    /\ alerts' = alerts \cup {f.seq}
    /\ shown' = IF IsNew(f.seq) THEN f.regime ELSE shown
    /\ told' = (told \/ IsNew(f.seq))
    /\ SameGeneration
    /\ UNCHANGED <<known, book, forming, loaded, feed>>

(* mergeMinutes, applyForming, seedRegime.                                 *)
OnSnapshot(f) ==
    /\ LET merged == mergeMinutes(Pair, f.bars)
       IN ShowMinutes(IF f.forming = NoBar THEN merged ELSE applyForming(merged, f.forming))
    /\ IF LeavesHole(book, f.bars) THEN NewGeneration ELSE SameGeneration
    /\ shown' = IF shown = "none" THEN f.regime ELSE shown
    /\ told' = FALSE
    /\ UNCHANGED <<loaded, alerts, feed>>

(* Mutated: the minutes of the other provider stay.                        *)
clearMarket_butMinutes ==
    /\ shown' = "none" /\ alerts' = {}
    /\ SameGeneration /\ UNCHANGED <<book, forming>>

(* clearMarket: only a pair that has a book gets a new generation.         *)
clearMarket ==
    /\ book' = EmptyBook /\ forming' = NoBar /\ shown' = "none" /\ alerts' = {}
    /\ IF known THEN NewGeneration ELSE SameGeneration

switchedProvider(p) == feed # 0 /\ feed # p

(* hello and status; after a status that names another provider the        *)
(* socket is replaced.                                                     *)
OnFeed(f) ==
    /\ feed' = f.provider
    /\ IF switchedProvider(f.provider) THEN clearMarket
       ELSE SameGeneration /\ UNCHANGED <<book, forming, shown, alerts>>
    /\ UNCHANGED <<known, loaded, told>>

Handle(f) ==
    CASE f.kind = "tick"     -> OnTick(f)
      [] f.kind = "vol"      -> OnVol(f)
      [] f.kind = "alert"    -> OnAlert(f)
      [] f.kind = "snapshot" -> OnSnapshot(f)
      [] f.kind \in {"hello", "status"} -> OnFeed(f)

(* A frame arrives.  After a status that names another provider the effect *)
(* runs again, and whatever else the old socket brings is ignored.         *)
Receive ==
    /\ queue # <<>> /\ Head(queue).kind # "owed"
    /\ Handle(Head(queue))
    /\ IF Head(queue).kind = "status" /\ switchedProvider(Head(queue).provider)
       THEN open' = FALSE /\ wants' = FALSE /\ queue' = <<>>
       ELSE queue' = Tail(queue) /\ UNCHANGED <<open, wants>>
    /\ UNCHANGED <<server, hidden, outages, faults>>

(* useMinuteHistory asks when the pair needs its history; the answer holds *)
(* every minute the server has.                                            *)
Sealed == {t \in Minutes : history[t] # None}

AskHistory ==
    /\ request = NoRequest /\ loaded # gen
    /\ request' = [gen |-> gen, at |-> minute, bars |-> [t \in Sealed |-> history[t]]]
    /\ UNCHANGED <<server, link, store, told, outages, faults>>

UnderWay == request.gen # None

LandHistory ==
    /\ UnderWay
    /\ ShowMinutes(mergeMinutes(Pair, request.bars))
    /\ loaded' = request.gen
    /\ request' = NoRequest
    /\ UNCHANGED <<server, link, gen, shown, alerts, feed, told, outages, faults>>

Fault(what) ==
    /\ what \notin faults /\ Cardinality(faults) < MaxFaults
    /\ faults' = faults \cup {what}

HistoryFails ==
    /\ UnderWay /\ Fault("request")
    /\ request' = Failed
    /\ UNCHANGED <<server, link, store, told, outages>>

(* Mutated: an error is left standing.                                     *)
RetryHistory_never == FALSE /\ UNCHANGED vars

(* After RETRY_MS.                                                         *)
RetryHistory ==
    /\ request = Failed
    /\ request' = NoRequest
    /\ UNCHANGED <<server, link, store, told, outages, faults>>

-----------------------------------------------------------------------------
(* The socket, client.ts.                                                  *)

Owed == [kind |-> "owed"]

(* onopen: the server greets, and owes a snapshot for the subscription.    *)
Connect ==
    /\ ~open
    /\ open' = TRUE /\ wants' = TRUE /\ told' = FALSE
    /\ queue' = <<[kind |-> "hello", provider |-> provider], Owed>>
    /\ UNCHANGED <<server, hidden, store, request, outages, faults>>

(* The connection ends, or the watchdog or the user replaces the socket.   *)
Disconnect ==
    /\ open /\ outages < MaxOutages
    /\ outages' = outages + 1
    /\ open' = FALSE /\ wants' = FALSE /\ queue' = <<>>
    /\ UNCHANGED <<server, hidden, store, request, told, faults>>

(* The tab is hidden: the pair is unsubscribed, and the gateway drops what *)
(* it has not sent yet of it.                                              *)
Hide ==
    /\ ~hidden /\ outages < MaxOutages
    /\ outages' = outages + 1
    /\ hidden' = TRUE /\ wants' = FALSE
    /\ \E k \in 0..Len(queue) :
         queue' = SubSeq(queue, 1, k)
                    \o SelectSeq(SubSeq(queue, k + 1, Len(queue)),
                                 LAMBDA f : f.kind \notin {"tick", "vol"})
    /\ UNCHANGED <<server, open, store, request, told, faults>>

Show ==
    /\ hidden
    /\ hidden' = FALSE
    /\ IF open THEN wants' = TRUE /\ queue' = Append(queue, Owed)
       ELSE UNCHANGED <<wants, queue>>
    /\ UNCHANGED <<server, open, store, request, told, outages, faults>>

(* The newest entries of the hot cache.                                    *)
NewestSealed == {t \in Sealed : Cardinality({u \in Sealed : u > t}) < SnapshotBars}

(* manager.snapshot: read now, sent ahead of what came since it was asked. *)
ReadSnapshot ==
    /\ \E i \in DOMAIN queue :
         /\ queue[i] = Owed
         /\ queue' = [queue EXCEPT ![i] =
              [kind    |-> "snapshot", regime |-> regime,
               bars    |-> [t \in NewestSealed |-> history[t]],
               forming |-> IF ticks = 0 THEN NoBar ELSE [t |-> minute, n |-> ticks]]]
    /\ UNCHANGED <<server, open, wants, hidden, store, request, told, outages, faults>>

(* A slow reader: the newer of two frames takes the older one's place.     *)
Conflate ==
    /\ \E i, j \in DOMAIN queue :
         /\ i < j /\ queue[i].kind = queue[j].kind
         /\ queue[i].kind = "tick" \/ (queue[i].kind = "vol" /\ Fault("conflated"))
         /\ queue[i].kind = "tick" => UNCHANGED faults
         /\ \A k \in i..j : queue[k].kind \notin {"owed", "snapshot"}
         /\ queue' = SubSeq(queue, 1, i - 1) \o <<queue[j]>> \o SubSeq(queue, i + 1, j - 1)
                       \o SubSeq(queue, j + 1, Len(queue))
    /\ UNCHANGED <<server, open, wants, hidden, store, request, told, outages>>

-----------------------------------------------------------------------------
(* The server as its frames show it.                                       *)

Send(frames) == queue' = IF wants THEN queue \o frames ELSE queue
Room(k)      == Len(queue) + k <= MaxQueue

TickFrame(t, n)   == [kind |-> "tick", bar |-> [t |-> t, n |-> n]]
VolFrame(t, n, r) == [kind |-> "vol", bar |-> [t |-> t, n |-> n], regime |-> r]
AlertFrame(s, r)  == [kind |-> "alert", seq |-> s, regime |-> r]

(* After a change of provider the first tick is one of a later minute, a   *)
(* bound of the model.                                                     *)
Tick ==
    /\ ticks < MaxTicks /\ Room(1)
    /\ ticks > 0 \/ provider = 1
    /\ ticks' = ticks + 1
    /\ Send(<<TickFrame(minute, ticks + 1)>>)
    /\ UNCHANGED <<minute, history, regime, seq, provider, open, wants, hidden,
                   store, request, told, outages, faults>>

(* The first tick of a later minute: its frame, then the sealed bar of the *)
(* one in progress, and a transition if the bar caused one.  A history     *)
(* request ends within the minutes a snapshot covers.                      *)
NextMinute ==
    /\ minute < LastMinute /\ Room(IF ticks = 0 THEN 1 ELSE 2)
    /\ UnderWay => minute < request.at + SnapshotBars
    /\ minute' = minute + 1 /\ ticks' = 1
    /\ IF ticks = 0
       THEN Send(<<TickFrame(minute + 1, 1)>>) /\ UNCHANGED <<history, regime, seq>>
       ELSE /\ history' = [history EXCEPT ![minute] = ticks]
            /\ \/ /\ UNCHANGED <<regime, seq>>
                  /\ Send(<<TickFrame(minute + 1, 1), VolFrame(minute, ticks, regime)>>)
               \/ /\ Room(3)
                  /\ regime' = IF regime = "calm" THEN "elevated" ELSE "calm"
                  /\ seq' = seq + 1
                  /\ Send(<<TickFrame(minute + 1, 1), VolFrame(minute, ticks, regime'),
                            AlertFrame(seq', regime')>>)
    /\ UNCHANGED <<provider, open, wants, hidden, store, request, told, outages, faults>>

(* A standby takes over within a minute: the ticks are lost to the bar, and *)
(* the next one of this minute starts a bar of its own.                     *)
Takeover ==
    /\ ticks > 0 /\ Fault("takeover")
    /\ ticks' = 0
    /\ UNCHANGED <<minute, history, regime, seq, provider, link, store, request, told, outages>>

(* A minute that was never sealed is recovered from the provider.          *)
Recover(t) ==
    /\ t < minute /\ history[t] = None
    /\ history' = [history EXCEPT ![t] = 0]
    /\ UNCHANGED <<minute, ticks, regime, seq, provider, link, store, request, told,
                   outages, faults>>

(* A transition the tab has been sent is delivered again.                  *)
Redeliver(s) ==
    /\ wants /\ s \in alerts /\ Room(1) /\ Fault("redelivered")
    /\ \E r \in {"calm", "elevated"} :
         /\ r = (IF s % 2 = 1 THEN "elevated" ELSE "calm")
         /\ Send(<<AlertFrame(s, r)>>)
    /\ UNCHANGED <<server, open, wants, hidden, store, request, told, outages>>

(* The deployment changes its provider: the pair's keys are parked and its *)
(* history seeded anew, then the status is published.  A tab that knew no  *)
(* provider, or had no book, before has nothing to clear (see README).     *)
SwitchProvider ==
    /\ provider = 1 /\ Room(1)
    /\ feed = 1 /\ known /\ Fault("switched")
    /\ provider' = 2 /\ ticks' = 0
    /\ history' = [t \in Minutes |-> IF t < minute THEN 0 ELSE None] /\ regime' = "calm"
    /\ queue' = IF open THEN Append(queue, [kind |-> "status", provider |-> 2]) ELSE queue
    /\ UNCHANGED <<minute, seq, open, wants, hidden, store, request, told, outages>>

-----------------------------------------------------------------------------
Init ==
    /\ minute = 1 /\ ticks = 1 /\ provider = 1
    /\ history = [t \in Minutes |-> IF t = 0 THEN 1 ELSE None] /\ regime = "calm" /\ seq = 0
    /\ open = FALSE /\ wants = FALSE /\ queue = <<>> /\ hidden = FALSE
    /\ known = FALSE /\ book = EmptyBook /\ forming = NoBar
    /\ gen = 0 /\ loaded = None /\ shown = "none" /\ alerts = {} /\ feed = 0
    /\ request = NoRequest /\ told = FALSE /\ outages = 0 /\ faults = {}

Next ==
    \/ Receive \/ AskHistory \/ LandHistory \/ HistoryFails \/ RetryHistory
    \/ Connect \/ Disconnect \/ Hide \/ Show \/ ReadSnapshot \/ Conflate
    \/ Tick \/ NextMinute \/ Takeover \/ SwitchProvider
    \/ \E t \in Minutes : Recover(t)
    \/ \E s \in 1..LastMinute : Redeliver(s)

(* The event loop runs what is due, and timers and requests end; nothing   *)
(* makes the server, the network or the user do anything.                  *)
Fairness == WF_vars(AskHistory) /\ WF_vars(LandHistory) /\ WF_vars(RetryHistory)

Spec     == Init /\ [][Next]_vars
FairSpec == Spec /\ Fairness

-----------------------------------------------------------------------------
(* What holds.                                                             *)

Bar    == [t : Minutes, n : 1..MaxTicks]
Same   == feed = provider

(* The store has the shape of its maps; a report is a count of ticks, a    *)
(* recovered one has none.                                                 *)
TypeOK ==
    /\ book \in [Minutes -> [sealed : {None} \cup 1..MaxTicks, recovered : {None, 0},
                             provisional : {None} \cup 1..MaxTicks]]
    /\ forming = NoBar \/ forming \in Bar
    /\ gen \in Nat /\ loaded \in None..gen
    /\ shown \in {"none", "calm", "elevated"}
    /\ alerts \subseteq 1..seq /\ feed \in 0..2
    /\ \A t \in Minutes : ~(sealed(book, t) /\ book[t].provisional # None)

(* Once the tab knows the provider in use, every sealed or recovered       *)
(* minute it shows is the server's own: nothing of the other provider's    *)
(* comes through, not even a request that was under way, if the tab had    *)
(* seen the other one.                                                     *)
ShowsTheServersMinutes ==
    Same => \A t \in Minutes :
        /\ sealed(book, t) => book[t].sealed = history[t]
        /\ book[t].recovered # None => history[t] = 0

(* The book keeps its shape, and its final minutes are the server's.       *)
BookInv == TypeOK /\ ShowsTheServersMinutes

(* A minute never loses range it had, whatever order the frames, the       *)
(* snapshot and the history come in: it gives way only to its own seal, to *)
(* the server's history having no ticks of it, or to another provider.     *)
RangeNeverShrinks ==
    [][\A t \in Minutes :
         Shown(book', forming', t) < Shown(book, forming, t) =>
            sealed(book', t) \/ feed' # feed \/ (t < minute /\ history[t] <= 0)]_vars

Final(t) == sealed(book, t) \/ book[t].recovered # None

(* A minute the server sealed is missing after a final one and before any  *)
(* other only while the pair is marked for its history: as long as no vol  *)
(* frame was conflated away.                                               *)
HolesAreMarked ==
    Same /\ "conflated" \notin faults =>
        \A t, a, z \in Minutes :
            a < t /\ t < z /\ Final(a) /\ held(book, z) /\ history[t] > 0 =>
                held(book, t) \/ loaded # gen

(* Once a live reading or transition has followed the snapshot and all     *)
(* that was sent has arrived, the regime shown is the server's.            *)
RegimeIsCurrent == open /\ wants /\ told /\ queue = <<>> /\ Same => shown = regime

(* A pair marked for its history gets it.                                  *)
HistoryIsLoaded == []<>(loaded = gen)

-----------------------------------------------------------------------------
(* What the source says and the code does not do (see README).             *)

(* "Snapshot regime is authoritative on connect" (store.ts:448): false on  *)
(* every connect but the first.                                            *)
SnapshotIsAuthoritative ==
    open /\ wants /\ queue = <<>> /\ Same => shown = regime

=============================================================================
