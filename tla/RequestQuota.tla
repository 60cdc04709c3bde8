---------------------------- MODULE RequestQuota ----------------------------
(***************************************************************************)
(* The ledger of provider requests, apps/ingestor/fx_ingestor/quota.py, as *)
(* operators: a ledger gives the number of requests entered at each time.  *)
(* One EVAL is one step, whoever makes it.                                 *)
(***************************************************************************)
EXTENDS Integers, FiniteSetsExt

CONSTANTS HourMs, DayMs,                      \* the rolling windows
          PerHour, PerDay,                    \* the account's allowance
          ReservePerHour, ReservePerDay       \* what the live feed keeps

ASSUME QuotaAssumption ==
    /\ {HourMs, DayMs, PerHour, PerDay, ReservePerHour, ReservePerDay} \subseteq Nat
    /\ HourMs < DayMs /\ ReservePerHour <= PerHour /\ ReservePerDay <= PerDay

(* Requests the ledger holds from time `since` on.                         *)
ZCount(ledger, since) == MapThenSumSet(LAMBDA t : ledger[t], {t \in DOMAIN ledger : t >= since})

(* Mutated: only the last hour is kept.                                    *)
ForgetAnHour(ledger, now) ==
    [t \in DOMAIN ledger |-> IF t <= now - HourMs THEN 0 ELSE ledger[t]]

(* ZREMRANGEBYSCORE -inf (now - day).                                      *)
Forget(ledger, now) ==
    [t \in DOMAIN ledger |-> IF t <= now - DayMs THEN 0 ELSE ledger[t]]

(* _TAKE_LUA: whether the request is entered, and the ledger it leaves.    *)
Enter(ledger, now, hourCap, dayCap) ==
    LET kept    == Forget(ledger, now)
        granted == ZCount(kept, now - HourMs) < hourCap /\ ZCount(kept, 0) < dayCap
    IN [granted |-> granted, ledger |-> IF granted THEN [kept EXCEPT ![now] = @ + 1] ELSE kept]

(* take(): background work leaves the reserve alone.                       *)
Take(ledger, now) ==
    Enter(ledger, now, PerHour - ReservePerHour, PerDay - ReservePerDay)

(* record(): a request of the live feed is entered without a cap.          *)
Record(ledger, now) == [Forget(ledger, now) EXCEPT ![now] = @ + 1]

============================================================================
