------------------------------ MODULE EventHistory ------------------------------
(***************************************************************************)
(* What the performance-event store promises the feedback loop, one step    *)
(* per visible change: an event arrives once and keeps its request, unless  *)
(* two submissions contested it before it arrived.  PerformanceEvents       *)
(* implements it; FeedbackLoop builds on it.                                *)
(*                                                                          *)
(*   persistence/performance_event_store.py  campaign_performance_events    *)
(***************************************************************************)
EXTENDS Integers, FiniteSets

CONSTANTS
    EventIds,
    Contestable,   \* bound: the events whose submissions may race
    Payloads,      \* requests that hash differently
    NoPayload      \* of an event that is not stored

ASSUME PayloadsAssumption == NoPayload \notin Payloads

VARIABLES
    stored,        \* the request an event was analysed from
    contested      \* the events two submissions found missing at once

historyVars == <<stored, contested>>

HistoryInit ==
    /\ stored    = [e \in EventIds |-> NoPayload]
    /\ contested = {}

Contest(e) ==
    /\ e \in Contestable \ contested /\ stored[e] = NoPayload
    /\ contested' = contested \cup {e}
    /\ UNCHANGED stored

Arrive(e, p) ==
    /\ stored[e] = NoPayload \/ e \in contested
    /\ stored' = [stored EXCEPT ![e] = p]
    /\ UNCHANGED contested

HistoryNext == \E e \in EventIds : Contest(e) \/ \E p \in Payloads : Arrive(e, p)

HistorySpec == HistoryInit /\ [][HistoryNext]_historyVars

HistoryTypeOK ==
    /\ stored    \in [EventIds -> Payloads \cup {NoPayload}]
    /\ contested \subseteq EventIds
=============================================================================
