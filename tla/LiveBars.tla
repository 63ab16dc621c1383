------------------------------ MODULE LiveBars ------------------------------
(***************************************************************************)
(* The bars a live run trades on (execution/live_bars.py): a walk over the *)
(* trading days of a window, closed days through a cache on disk.  Two     *)
(* processes may walk at once, the timer's run and one started by hand.    *)
(***************************************************************************)
EXTENDS KlineVenue

CONSTANTS
    Walkers,        \* processes that call recent_bars
    WindowDays,     \* days: how many days back the walk starts
    KeepDays        \* _CACHE_KEEP_DAYS

ASSUME LiveBarsAssumption == WindowDays \in Nat \ {0} /\ KeepDays \in Nat

VARIABLES
    cache,          \* day -> records of its cache file, {} when unusable
    now,            \* process -> the one clock reading of its walk, 0 at rest
    back,           \* process -> how many days back the walk is
    got,            \* process -> bars collected
    fetched,        \* process -> a closed day's records not yet written
    empty,          \* process -> days this walk was given nothing for
    servedShort     \* ghost: days served while over and not fully published

walkVars == <<now, back, got, fetched, empty>>
liveBarsVars == <<venueVars, cache, walkVars, servedShort>>

LiveBarsInit ==
    /\ cache = [d \in Days |-> {}]
    /\ now = [p \in Walkers |-> 0] /\ back = [p \in Walkers |-> 0]
    /\ got = [p \in Walkers |-> {}] /\ fetched = [p \in Walkers |-> {}]
    /\ empty = [p \in Walkers |-> {}]
    /\ servedShort = {}

(* Mutant: the day changes at midnight, some bars before its bucket ends.  *)
MutTradingDay(h) == (h + 1) \div DayLen

(* The trading day still accumulating bars: the hours are counted from     *)
(* 06:00 JST, so _trading_day's six hours are in the origin of the axis.   *)
TradingDay(h) == DayOf(h)

Current(p) == TradingDay(now[p])

Day(p) == Current(p) - back[p]

(* Mutant: the current day is cached too.                                  *)
MutCacheable(p) == Day(p) <= Current(p)

Cacheable(p) == Day(p) < Current(p)

AtRest(p) == now[p] = 0

StartWalk(p) ==
    /\ AtRest(p) /\ TradingDay(hour) >= WindowDays
    /\ now' = [now EXCEPT ![p] = hour]
    /\ back' = [back EXCEPT ![p] = WindowDays]
    /\ UNCHANGED <<venueVars, cache, got, fetched, empty, servedShort>>

NextDay(p, bars) ==
    /\ got' = [got EXCEPT ![p] = @ \cup bars]
    /\ back' = [back EXCEPT ![p] = @ - 1]

Walking(p) == ~AtRest(p) /\ back[p] >= 0 /\ fetched[p] = {}

(* A usable cache file of a closed day stands in for the request.          *)
ReadCache(p) ==
    /\ Walking(p) /\ Cacheable(p) /\ cache[Day(p)] # {}
    /\ NextDay(p, cache[Day(p)])
    /\ UNCHANGED <<venueVars, cache, now, fetched, empty, servedShort>>

(* The day is over and the venue has not yet published all of it.          *)
NotAllOut(day) == (\A h \in Bucket(day) : h < hour) /\ ~(Bucket(day) \subseteq 0 .. published)

(* An empty answer is no error and is not cached; the walk goes on.        *)
FetchDay(p) ==
    /\ Walking(p) /\ (Cacheable(p) => cache[Day(p)] = {})
    /\ \E records \in Answers(Day(p)) :
         /\ empty' = IF records = {} THEN [empty EXCEPT ![p] = @ \cup {Day(p)}] ELSE empty
         /\ servedShort' = IF records # {} /\ NotAllOut(Day(p))
                           THEN servedShort \cup {Day(p)} ELSE servedShort
         /\ IF records # {} /\ Cacheable(p)
            THEN fetched' = [fetched EXCEPT ![p] = records] /\ UNCHANGED <<got, back>>
            ELSE NextDay(p, records) /\ UNCHANGED fetched
    /\ UNCHANGED <<venueVars, cache, now>>

(* The file appears whole, by a rename, or not at all.                     *)
WriteCache(p) ==
    /\ fetched[p] # {}
    /\ cache' \in {cache, [cache EXCEPT ![Day(p)] = fetched[p]]}
    /\ NextDay(p, fetched[p])
    /\ fetched' = [fetched EXCEPT ![p] = {}]
    /\ UNCHANGED <<venueVars, now, empty, servedShort>>

Rest(p) ==
    /\ now' = [now EXCEPT ![p] = 0] /\ back' = [back EXCEPT ![p] = 0]
    /\ got' = [got EXCEPT ![p] = {}] /\ empty' = [empty EXCEPT ![p] = {}]
    /\ fetched' = [fetched EXCEPT ![p] = {}]

(* The API stays unreachable, or the process dies.                         *)
AbandonWalk(p) ==
    /\ ~AtRest(p) /\ Rest(p)
    /\ UNCHANGED <<venueVars, cache, servedShort>>

(* The bars of the hour that was forming at the clock reading are dropped. *)
Returned(p) == { b \in got[p] : b.hour < now[p] }

Returns(p) == ~AtRest(p) /\ back[p] < 0

(* Files last written KeepDays ago are pruned; a file is at least as young *)
(* as the end of its day.                                                  *)
Prunable == { d \in Days : (d + 1 + KeepDays) * DayLen <= hour }

ReturnBars(p) ==
    /\ Returns(p) /\ Rest(p)
    /\ \E old \in SUBSET Prunable :
         cache' = [d \in Days |-> IF d \in old THEN {} ELSE cache[d]]
    /\ UNCHANGED <<venueVars, servedShort>>

WalkStep(p) ==
    \/ StartWalk(p) \/ ReadCache(p) \/ FetchDay(p) \/ WriteCache(p)
    \/ AbandonWalk(p) \/ ReturnBars(p)

VenueMoves ==
    /\ HourPasses \/ PublishBar
    /\ UNCHANGED <<cache, walkVars, servedShort>>

LiveBarsNext == VenueMoves \/ \E p \in Walkers : WalkStep(p)

LiveBarsSpec == VenueInit /\ LiveBarsInit /\ [][LiveBarsNext]_liveBarsVars

---------------------------------------------------------------------------
Hours(bars) == { b.hour : b \in bars }

LiveBarsTypeOK ==
    /\ hour \in 0 .. MaxHour /\ published \in -1 .. MaxHour
    /\ cache \in [Days -> SUBSET Bars]
    /\ now \in [Walkers -> 0 .. MaxHour] /\ back \in [Walkers -> -1 .. WindowDays]
    /\ \A p \in Walkers :
         /\ {got[p], fetched[p]} \subseteq SUBSET Bars
         /\ {empty[p], servedShort} \subseteq SUBSET Days

(* No cache file holds a bar that was still forming when it was fetched,   *)
(* nor does what a walk returns, whichever process wrote the files and     *)
(* however the hours and days roll over during the walks ("strategies act  *)
(* only on closed bars", live_bars.py).                                    *)
OnlyClosedBars ==
    /\ \A d \in Days : \A b \in cache[d] : b.closed
    /\ \A p \in Walkers : Returns(p) => \A b \in Returned(p) : b.closed

(* A bar older than the newest one is missing from what a walk returns     *)
(* only if the venue gave this very walk nothing for the day, or had not   *)
(* yet published the day's last bar when it was first asked for the closed *)
(* day: a throttled request never outlives its run, and no order of the    *)
(* walks, the rollover and the pruning loses a bar otherwise.              *)
GapsAreTheVenues ==
    \A p \in Walkers : Returns(p) =>
      \A b \in Returned(p) :
        \A h \in (Current(p) - WindowDays) * DayLen .. b.hour :
          h \in Hours(Returned(p)) \/ DayOf(h) \in empty[p] \cup servedShort
=============================================================================
