------------------------------ MODULE LiveTab ------------------------------
(***************************************************************************)
(* The live tab of src/viz/app.py for one book: callbacks that threads of  *)
(* one server run side by side read GMO's bars and account through two     *)
(* caches with a time to live, which Refresh passes by.  What a read       *)
(* returns is the moment it was answered; the simulation is a function of  *)
(* the bars.                                                               *)
(***************************************************************************)
EXTENDS Integers

CONSTANTS
    Viewers,   \* the threads that serve the live tab
    Ttl,       \* "bars" :> _LIVE_BARS_TTL @@ "account" :> _LIVE_ACCT_TTL
    MaxClock,  \* bound: time
    MaxViews,  \* bound: callbacks
    Nothing    \* no entry

Sources == {"bars", "account"}

ASSUME LiveTabAssumption ==
    Ttl \in [Sources -> Nat] /\ {MaxClock, MaxViews} \subseteq Nat

VARIABLES
    monotonic,   \* time.monotonic()
    held,    \* _LIVE_BARS and _LIVE_ACCT
    view,    \* what each thread is doing
    views    \* callbacks so far

liveTabVars == <<monotonic, held, view, views>>

(* took: what the callback shows, and when it took it.                     *)
NoView == [at |-> "idle", source |-> "bars", force |-> FALSE, asked |-> 0, now |-> 0,
           answer |-> Nothing, took |-> [s \in Sources |-> Nothing]]

LiveTabInit ==
    /\ monotonic = 0
    /\ held = [s \in Sources |-> Nothing]
    /\ view = [v \in Viewers |-> NoView] /\ views = 0

(* The tab is opened, or toggled, or refreshed.                            *)
OpenTab(v, force) ==
    /\ view[v].at \in {"idle", "shown"} /\ views < MaxViews
    /\ views' = views + 1
    /\ view' = [view EXCEPT ![v] = [NoView EXCEPT !.at = "look", !.force = force, !.asked = monotonic]]
    /\ UNCHANGED <<monotonic, held>>

(* The next source is looked at, or the figure is drawn.                   *)
Took(v, data, when) ==
    [view[v] EXCEPT !.took[view[v].source] = [data |-> data, when |-> when],
                    !.at = IF view[v].source = "bars" THEN "look" ELSE "shown",
                    !.source = "account", !.now = 0, !.answer = Nothing]

MayReuse(v) == ~view[v].force

(* _live_bars_cached and _gmo_account_raw: an entry younger than its time  *)
(* to live is taken, else the venue is asked.                              *)
LookAtHeld(v) ==
    /\ view[v].at = "look"
    /\ LET source == view[v].source
           hit    == held[source]
       IN  view' = [view EXCEPT ![v] =
              IF MayReuse(v) /\ hit # Nothing /\ monotonic - hit.stamp < Ttl[source]
              THEN Took(v, hit.data, monotonic)
              ELSE [@ EXCEPT !.at = "ask", !.now = monotonic]]
    /\ UNCHANGED <<monotonic, held, views>>

(* A failed read of the bars ends the callback; one of the account is      *)
(* itself the answer.                                                      *)
Ask(v) ==
    /\ view[v].at = "ask"
    /\ \E ok \in BOOLEAN :
          view' = [view EXCEPT ![v] =
             IF ok \/ view[v].source = "account"
             THEN [@ EXCEPT !.at = "keep", !.answer = [read |-> monotonic, ok |-> ok]]
             ELSE NoView]
    /\ UNCHANGED <<monotonic, held, views>>

(* Mutant: the entry is stamped when it is stored.                         *)
MutStamp(v) == monotonic

(* The entry is stamped with the time before the venue was asked.          *)
Stamp(v) == view[v].now

Keep(v) ==
    /\ view[v].at = "keep"
    /\ held' = [held EXCEPT ![view[v].source] =
                   [stamp |-> Stamp(v), data |-> view[v].answer]]
    /\ view' = [view EXCEPT ![v] = Took(v, view[v].answer, view[v].answer.read)]
    /\ UNCHANGED <<monotonic, views>>

Tick ==
    /\ monotonic < MaxClock /\ monotonic' = monotonic + 1
    /\ UNCHANGED <<held, view, views>>

LiveTabNext ==
    \/ \E v \in Viewers :
          \/ \E force \in BOOLEAN : OpenTab(v, force)
          \/ LookAtHeld(v) \/ Ask(v) \/ Keep(v)
    \/ Tick

LiveTabSpec == LiveTabInit /\ [][LiveTabNext]_liveTabVars

-----------------------------------------------------------------------------
Shown(v) == view[v].at = "shown"

(* Bars and positions on the live tab are never older, when the callback   *)
(* takes them, than their time to live, however slow the read was that     *)
(* brought them and whichever thread made it.                              *)
ShownIsRecent ==
    \A v \in Viewers, s \in Sources :
        Shown(v) => LET took == view[v].took[s]
                    IN  took.when = took.data.read \/ took.when - took.data.read < Ttl[s]

(* After Refresh both were read after the click.                           *)
RefreshReadsBoth ==
    \A v \in Viewers, s \in Sources :
        Shown(v) /\ view[v].force => view[v].took[s].data.read >= view[v].asked

(* What the live tab shows is current.                                     *)
LiveTabIsCurrent == ShownIsRecent /\ RefreshReadsBoth
=============================================================================
