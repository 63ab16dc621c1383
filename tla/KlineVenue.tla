----------------------------- MODULE KlineVenue -----------------------------
(***************************************************************************)
(* GMO's public klines, as _fetch_klines (data/import_gmo.py) sees them:   *)
(* one request returns the bars of one day bucket published so far.  Time  *)
(* is counted in bars of one hour from 06:00 JST of day 0, so that a       *)
(* bucket is DayLen consecutive bars.  The bar of the hour in progress is  *)
(* served as well, still forming, and a bar may be published late.         *)
(***************************************************************************)
EXTENDS Integers, FiniteSets

CONSTANTS
    DayLen,         \* bars of a day bucket
    MaxHour,        \* bound: the last hour
    MaxLag          \* bars the venue may be behind its own clock

ASSUME KlineVenueAssumption ==
    DayLen \in Nat \ {0} /\ MaxHour \in Nat /\ MaxLag \in Nat

VARIABLES
    hour,           \* the hour in progress
    published       \* the newest bar that is served

venueVars == <<hour, published>>

Days == 0 .. MaxHour \div DayLen
Bucket(day) == day * DayLen .. day * DayLen + DayLen - 1
DayOf(h) == h \div DayLen

Bars == [hour : 0 .. MaxHour, closed : BOOLEAN]

(* What a request for a day returns now: the retries of _fetch_klines end  *)
(* in these records, in none although there are some (a throttle that      *)
(* outlasts them, a 404), or in an error.                                  *)
Records(day) ==
    { [hour |-> h, closed |-> h < hour] : h \in { b \in Bucket(day) : b <= published } }

Answers(day) == { Records(day), {} }

(* Any hour, and a venue that is at most as late as it may be.             *)
VenueInit ==
    /\ hour \in 0 .. MaxHour /\ published \in -1 .. hour
    /\ hour <= published + MaxLag + 1

HourPasses ==
    /\ hour < MaxHour /\ hour <= published + MaxLag
    /\ hour' = hour + 1
    /\ UNCHANGED published

PublishBar ==
    /\ published < hour
    /\ published' = published + 1
    /\ UNCHANGED hour
=============================================================================
