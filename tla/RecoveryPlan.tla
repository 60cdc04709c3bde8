---------------------------- MODULE RecoveryPlan ----------------------------
(***************************************************************************)
(* The planning functions of apps/ingestor/fx_ingestor/recovery.py for one *)
(* symbol.  A minute is a number, a day DayLen minutes; a span, a stored   *)
(* range and a window are [start, end] with both ends included; a request  *)
(* is a sequence of spans.                                                 *)
(***************************************************************************)
EXTENDS Integers, SequencesExt

CONSTANTS DayLen,          \* minutes of a UTC day
          DaysPerRequest,  \* days_per_request
          Lookback, Horizon,
          Width, EndOffset \* of a rollup's bucket, and of its refresh policy

ASSUME PlanAssumption ==
    /\ {DayLen, DaysPerRequest, Horizon, Width} \subseteq Nat \ {0}
    /\ {Lookback, EndOffset} \subseteq Nat

Smaller(a, b) == IF a <= b THEN a ELSE b
Larger(a, b)  == IF a >= b THEN a ELSE b

Day(m) == m \div DayLen

floor_bucket(m) == (m \div Width) * Width

each_minute(span) == span.start..span.end

(* Mutated: minutes the worker may still persist are looked at.            *)
recovery_window_to_now(now) ==
    [start |-> Larger(now - Lookback, 0), end |-> now - 1]

(* Clipped to the minutes the model has.                                   *)
recovery_window(now) ==
    [start |-> Larger(now - Lookback, 0), end |-> now - Horizon - 1]

(* The open minutes of a window in order.                                  *)
open_minutes(window, closed) ==
    FoldLeft(LAMBDA acc, m : IF m \in closed THEN acc ELSE Append(acc, m), <<>>,
             [k \in 1..(window.end - window.start + 1) |-> window.start + k - 1])

(* Expected minutes without a bar and outside the ranges, as runs of       *)
(* consecutive minutes; `run` is the one being extended, if any.           *)
missing_spans(expected, present, ranges) ==
    LET Missing(m) == m \notin present /\ \A r \in ranges : m \notin each_minute(r)
        Flush(acc) == acc.spans \o acc.run
        Visit(acc, m) ==
            IF Missing(m) /\ acc.run # <<>> /\ m = acc.run[1].end + 1
            THEN [acc EXCEPT !.run[1].end = m]
            ELSE [spans |-> Flush(acc),
                  run   |-> IF Missing(m) THEN <<[start |-> m, end |-> m]>> ELSE <<>>]
    IN Flush(FoldLeft(Visit, [spans |-> <<>>, run |-> <<>>], expected))

(* Part k of a span begins where the days of part k - 1 end.               *)
split_by_days(span) ==
    LET boundary(k) == (Day(span.start) + k * DaysPerRequest) * DayLen
        parts       == (Day(span.end) - Day(span.start)) \div DaysPerRequest + 1
    IN [k \in 1..parts |-> [start |-> IF k = 1 THEN span.start ELSE boundary(k - 1),
                            end   |-> Smaller(span.end, boundary(k) - 1)]]

(* Mutated: a request goes on as long as its first and last part do.       *)
plan_requests_unbounded(spans) ==
    LET parts == FoldLeft(LAMBDA acc, span : acc \o split_by_days(span), <<>>, spans)
    IN IF parts = <<>> THEN <<>> ELSE <<parts>>

(* Parts in order, a new request when the days of the current one are full.*)
plan_requests(spans) ==
    LET parts == FoldLeft(LAMBDA acc, span : acc \o split_by_days(span), <<>>, spans)
        Full(current, part) ==
            current # <<>> /\ Day(part.end) - Day(current[1].start) >= DaysPerRequest
        Put(acc, part) ==
            IF Full(acc.current, part)
            THEN [requests |-> Append(acc.requests, acc.current), current |-> <<part>>]
            ELSE [acc EXCEPT !.current = Append(@, part)]
        all == FoldLeft(Put, [requests |-> <<>>, current |-> <<>>], parts)
    IN IF all.current = <<>> THEN all.requests ELSE Append(all.requests, all.current)

(* The minutes a request asks for.                                         *)
Wanted(request) == UNION {each_minute(request[k]) : k \in DOMAIN request}

(* The minutes a refresh of the buckets of first..last covers: closed ones *)
(* only.                                                                   *)
refresh_range(first, last, now) ==
    floor_bucket(first)
        ..(Smaller(floor_bucket(last) + Width, floor_bucket(Larger(now - EndOffset, 0))) - 1)

============================================================================
