------------------------------ MODULE GmoImport ------------------------------
(***************************************************************************)
(* The resumable import of GMO klines into the back-test table             *)
(* (import_range, data/import_gmo.py).  A request names a day bucket, from *)
(* 06:00 JST; the count that decides whether the day is stored already is  *)
(* of the UTC day of that name, which begins Shift bars later.             *)
(***************************************************************************)
EXTENDS KlineVenue

CONSTANTS
    Shift,          \* bars between the start of a bucket and of its UTC day
    Enough          \* min_coverage * expected_per_day, rounded up

(* By default Enough is four fifths of a day and Shift an eighth of it; a  *)
(* least coverage within the shift would let the first bars of the next    *)
(* bucket alone count as a day.                                            *)
ASSUME GmoImportAssumption ==
    /\ Shift \in 0 .. DayLen - 1 /\ Enough \in Shift + 1 .. DayLen
    /\ MaxLag <= DayLen - Enough + 1

VARIABLES
    table,          \* table ohlcv: hour -> "none", "forming" or "closed"
    stage,          \* "idle", "day", "upsert" or "end"
    day, lastDay,   \* the day of the loop and its last one
    firstDay, began,\* where and when the import began
    skipExisting,
    reply,          \* what the request returned, still to be upserted
    emptyDays       \* days answered with no record, ImportReport.empty_days

importVars == <<venueVars, table, stage, day, lastDay, firstDay, began,
                skipExisting, reply, emptyDays>>
extent == <<lastDay, firstDay, began, skipExisting>>

CalendarDay(d) == { h + Shift : h \in Bucket(d) }

ImportInit ==
    /\ table = [h \in 0 .. MaxHour |-> "none"]
    /\ stage = "idle" /\ day = 0 /\ lastDay = 0 /\ firstDay = 0 /\ began = 0
    /\ skipExisting = TRUE /\ reply = {} /\ emptyDays = {}

(* --from, --to and --no-skip-existing; --to may lie beyond what is served.*)
BeginImport ==
    /\ stage = "idle"
    /\ \E from, to \in Days, skip \in BOOLEAN :
         /\ from <= to
         /\ firstDay' = from /\ day' = from /\ lastDay' = to
         /\ skipExisting' = skip
    /\ began' = hour /\ emptyDays' = {} /\ stage' = "day"
    /\ UNCHANGED <<venueVars, table, reply>>

(* Mutant: the upper bound of the day is left out of the query.            *)
MutDayBarCount(d) ==
    Cardinality({ h \in DOMAIN table : h >= d * DayLen + Shift /\ table[h] # "none" })

DayBarCount(d) ==
    Cardinality({ h \in DOMAIN table \cap CalendarDay(d) : table[h] # "none" })

Skips == skipExisting /\ DayBarCount(day) >= Enough

NextImportDay ==
    /\ day' = day + 1
    /\ stage' = IF day = lastDay THEN "end" ELSE "day"

SkipDay ==
    /\ stage = "day" /\ Skips
    /\ NextImportDay
    /\ UNCHANGED <<venueVars, table, extent, reply, emptyDays>>

RequestDay ==
    /\ stage = "day" /\ ~Skips
    /\ \E answer \in Answers(day) :
         /\ reply' = answer
         /\ IF answer = {}
            THEN emptyDays' = emptyDays \cup {day} /\ NextImportDay
            ELSE stage' = "upsert" /\ UNCHANGED <<emptyDays, day>>
    /\ UNCHANGED <<venueVars, table, extent>>

(* The day's bars replace what is stored of them, in one transaction.      *)
UpsertDay ==
    /\ stage = "upsert"
    /\ table' = [h \in DOMAIN table |->
                 IF \E b \in reply : b.hour = h
                 THEN LET b == CHOOSE r \in reply : r.hour = h
                      IN IF b.closed THEN "closed" ELSE "forming"
                 ELSE table[h]]
    /\ reply' = {}
    /\ NextImportDay
    /\ UNCHANGED <<venueVars, extent, emptyDays>>

EndImport ==
    /\ stage = "end"
    /\ stage' = "idle" /\ day' = 0 /\ lastDay' = 0 /\ firstDay' = 0 /\ began' = 0
    /\ skipExisting' = TRUE /\ emptyDays' = {}
    /\ UNCHANGED <<venueVars, table, reply>>

(* An API error, a database error, or the intermittent box going down.     *)
AbortImport ==
    /\ stage # "idle"
    /\ stage' = "idle" /\ day' = 0 /\ lastDay' = 0 /\ firstDay' = 0 /\ began' = 0
    /\ skipExisting' = TRUE /\ reply' = {} /\ emptyDays' = {}
    /\ UNCHANGED <<venueVars, table>>

VenueMovesOn ==
    /\ HourPasses \/ PublishBar
    /\ UNCHANGED <<table, stage, day, extent, reply, emptyDays>>

ImportNext ==
    \/ VenueMovesOn
    \/ BeginImport \/ SkipDay \/ RequestDay \/ UpsertDay \/ EndImport \/ AbortImport

ImportSpec == VenueInit /\ ImportInit /\ [][ImportNext]_importVars

---------------------------------------------------------------------------
(* The days the import went over that had ended when it began and for      *)
(* which it was not told that there is nothing.                            *)
Imported ==
    { d \in firstDay .. lastDay : (d + 1) * DayLen <= began } \ emptyDays

NotFinal(d) == { h \in Bucket(d) : table[h] # "closed" }

(* When an import is through, a past day it went over is short of at most  *)
(* the bars the threshold forgives and one bar stored half formed; without *)
(* skip_existing, of those the venue had not published.  The two kinds of  *)
(* day never let a day through whose own bars are not there, whichever     *)
(* ranges, aborts and clock positions the earlier imports had.             *)
FreezeIsBounded ==
    stage = "end" =>
      \A d \in Imported :
        Cardinality(NotFinal(d)) <= IF skipExisting THEN DayLen - Enough + 1 ELSE MaxLag
=============================================================================
