-------------------------- MODULE ContinuousQuery --------------------------
(***************************************************************************)
(* A continuous query of the client the driver inherits: CacheImpl::       *)
(* QueryContinuous registers it, Java calls its listener and its filter    *)
(* through the registry handle from threads of its own, and the handle the *)
(* application holds closes it (ContinuousQueryHandleImpl).                *)
(*                                                                         *)
(* The query lives as long as someone holds a SharedPointer to it: the     *)
(* application's ContinuousQuery, the handle registry, a running filter    *)
(* callback.  Java is external: it sends no events after CLOSE returned;   *)
(* whether CLOSE also waits for the listeners that are running is its own  *)
(* affair, and closeWaits is either.                                       *)
(***************************************************************************)
EXTENDS Integers, FiniteSets

CONSTANTS
    Listeners,  \* Java's threads that tell events
    Filters,    \* Java's threads that ask the filter
    MaxEvents   \* bound on the callbacks of a behaviour

ASSUME ContinuousAssumption ==
    /\ {"application", "registry"} \cap Filters = {}
    /\ MaxEvents \in Nat

VARIABLES
    filtered,    \* has the query a filter?
    closeWaits,  \* does Java's CLOSE wait for running callbacks?
    closeFailed, \* Java refused CLOSE
    subscribed,  \* Java sends events
    handleState, \* the application's handle: "none", "open", "failed", "closed", "released"
    holders,     \* who holds a SharedPointer to the query
    registered,  \* is the query's handle in the registry?
    running,     \* callbacks that are inside the query
    extracted,   \* ContinuousQueryHandleImpl::extracted
    cursors,     \* history: initial cursors handed out
    events,      \* callbacks begun
    unfound,     \* history: filter callbacks that found no query
    usedFreed    \* history: a listener ran on a query that was gone

queryVars == <<filtered, closeWaits, closeFailed, subscribed, handleState, holders,
               registered, running, extracted, cursors, events, unfound, usedFreed>>

ContinuousInit ==
    /\ filtered \in BOOLEAN /\ closeWaits \in BOOLEAN /\ closeFailed = FALSE
    /\ subscribed = FALSE /\ handleState = "none"
    /\ holders = {"application"} /\ registered = FALSE /\ running = {}
    /\ extracted = FALSE /\ cursors = 0 /\ events = 0 /\ unfound = 0 /\ usedFreed = FALSE

(* CacheEntryEventFilterHolder::Write: what Java is told of the filter. *)
ToldOfFilter == filtered

(* CacheImpl::QueryContinuous: the query gets its handle, and Java takes   *)
(* it or refuses it; then nobody has a handle to release.                  *)
Subscribe(taken) ==
    /\ registered' = TRUE /\ holders' = holders \cup {"registry"}
    /\ subscribed' = taken
    /\ handleState' = IF taken THEN "open" ELSE "failed"
    /\ UNCHANGED <<filtered, closeWaits, closeFailed, running, extracted, cursors,
                   events, unfound, usedFreed>>

(* Cache::QueryContinuous of a query with a listener; without one Java is  *)
(* not asked.                                                              *)
QueryContinuous(taken) ==
    /\ handleState = "none" /\ "application" \in holders
    /\ Subscribe(taken)

(* The application lets its ContinuousQuery go. *)
DropQuery ==
    /\ "application" \in holders /\ handleState # "none"
    /\ holders' = holders \ {"application"}
    /\ UNCHANGED <<filtered, closeWaits, closeFailed, subscribed, handleState, registered, running,
                   extracted, cursors, events, unfound, usedFreed>>

-----------------------------------------------------------------------------
(* OnContinuousQueryListenerApply: the SharedPointer that registry.Get     *)
(* returns is gone at the end of the statement; the pointer taken from it  *)
(* is used after.                                                          *)
ListenerFinds(l) ==
    /\ subscribed /\ l \notin running /\ events < MaxEvents
    /\ events' = events + 1
    /\ running' = IF registered THEN running \cup {l} ELSE running
    /\ UNCHANGED <<filtered, closeWaits, closeFailed, subscribed, handleState, holders, registered,
                   extracted, cursors, unfound, usedFreed>>

(* ContinuousQueryImpl::ReadAndProcessEvents. *)
ReadAndProcessEvents(l) ==
    /\ l \in running
    /\ usedFreed' = (usedFreed \/ holders = {})
    /\ running' = running \ {l}
    /\ UNCHANGED <<filtered, closeWaits, closeFailed, subscribed, handleState, holders, registered,
                   extracted, cursors, events, unfound>>

(* OnContinuousQueryFilterApply keeps the SharedPointer while it runs. *)
FilterFinds(f) ==
    /\ subscribed /\ ToldOfFilter /\ f \notin holders /\ events < MaxEvents
    /\ events' = events + 1
    /\ IF registered
       THEN holders' = holders \cup {f} /\ UNCHANGED unfound
       ELSE unfound' = unfound + 1 /\ UNCHANGED holders
    /\ UNCHANGED <<filtered, closeWaits, closeFailed, subscribed, handleState, registered, running,
                   extracted, cursors, usedFreed>>

(* CacheEntryEventFilterBase::ReadAndProcessEvent. *)
ReadAndProcessEvent(f) ==
    /\ f \in holders
    /\ holders' = holders \ {f}
    /\ UNCHANGED <<filtered, closeWaits, closeFailed, subscribed, handleState, registered, running,
                   extracted, cursors, events, unfound, usedFreed>>

-----------------------------------------------------------------------------
(* ContinuousQueryHandleImpl::GetInitialQueryCursor, under its mutex: Java *)
(* gives the cursor or not, and once it did the next call is refused.      *)
GetInitialQueryCursor(ok) ==
    /\ handleState = "open" /\ ~extracted
    /\ extracted' = ok
    /\ cursors' = IF ok THEN cursors + 1 ELSE cursors
    /\ UNCHANGED <<filtered, closeWaits, closeFailed, subscribed, handleState, holders, registered,
                   running, events, unfound, usedFreed>>

(* Mutant: the handle goes before Java is told to stop. *)
ReleaseBeforeClose(ok) ==
    /\ handleState = "open"
    /\ handleState' = "released" /\ closeFailed' = ~ok
    /\ registered' = FALSE /\ holders' = holders \ {"registry"}
    /\ UNCHANGED <<filtered, closeWaits, subscribed, running, extracted, cursors,
                   events, unfound, usedFreed>>

(* ~ContinuousQueryHandleImpl: CLOSE in Java, whose error nobody reads ... *)
CloseInJava(ok) ==
    /\ handleState = "open"
    /\ ok /\ closeWaits => running = {} /\ holders \cap Filters = {}
    /\ handleState' = "closed" /\ subscribed' = ~ok /\ closeFailed' = ~ok
    /\ UNCHANGED <<filtered, closeWaits, holders, registered, running, extracted, cursors, events,
                   unfound, usedFreed>>

(* ... and then HandleRegistry::Release. *)
ReleaseHandle ==
    /\ handleState = "closed"
    /\ handleState' = "released"
    /\ registered' = FALSE /\ holders' = holders \ {"registry"}
    /\ UNCHANGED <<filtered, closeWaits, closeFailed, subscribed, running, extracted, cursors, events,
                   unfound, usedFreed>>

ContinuousNext ==
    \/ \E taken \in BOOLEAN : QueryContinuous(taken)
    \/ DropQuery
    \/ \E l \in Listeners : ListenerFinds(l) \/ ReadAndProcessEvents(l)
    \/ \E f \in Filters : FilterFinds(f) \/ ReadAndProcessEvent(f)
    \/ \E ok \in BOOLEAN : GetInitialQueryCursor(ok)
    \/ \E ok \in BOOLEAN : CloseInJava(ok)
    \/ ReleaseHandle

ContinuousSpec == ContinuousInit /\ [][ContinuousNext]_queryVars

-----------------------------------------------------------------------------
ContinuousTypeOK ==
    /\ handleState \in {"none", "open", "failed", "closed", "released"}
    /\ holders \subseteq {"application", "registry"} \cup Filters
    /\ running \subseteq Listeners
    /\ registered \in BOOLEAN /\ (registered <=> "registry" \in holders)
    /\ events \in 0 .. MaxEvents /\ cursors \in Nat /\ unfound \in Nat

(* Events reach the query while it lives: Java is told to stop before the  *)
(* handle goes, so a filter is asked of a query that is gone only if Java  *)
(* refused to close, and a listener runs on a freed one only if CLOSE did  *)
(* not wait for it and the application has let its ContinuousQuery go.     *)
EventsFindTheirQuery ==
    /\ unfound > 0 => closeFailed /\ filtered
    /\ subscribed => registered \/ closeFailed
    /\ usedFreed => (closeFailed \/ ~closeWaits) /\ "application" \notin holders

(* The initial cursor is handed out once. *)
InitialCursorOnce == cursors = IF extracted THEN 1 ELSE 0

(* Only the handle's destructor takes the query from the registry: the one *)
(* that Java refused stays there.                                          *)
RefusedStaysRegistered == registered <=> handleState \in {"open", "failed", "closed"}

(* CacheImpl::QueryContinuous, ContinuousQueryHandleImpl and the callbacks *)
(* of IgniteEnvironment: all of these.                                     *)
ListenersFindTheirQuery ==
    /\ ContinuousTypeOK
    /\ EventsFindTheirQuery
    /\ InitialCursorOnce
    /\ RefusedStaysRegistered
=============================================================================
