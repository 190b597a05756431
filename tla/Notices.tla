------------------------------- MODULE Notices --------------------------------
(***************************************************************************)
(* The websocket server: what the pages of browsers are told while threads *)
(* publish, and what those that come later find in the cache.              *)
(* Source: ws_server.cpp, http_server.cpp.                                 *)
(*                                                                         *)
(* Opened, closed and asked by browsers in one thread of its own; pushes   *)
(* come from the threads of HTTP clients.                                  *)
(***************************************************************************)
EXTENDS Integers, FiniteSets

CONSTANTS
    Pages,          \* pages that open a websocket
    Publishers,     \* threads that publish
    Peers,          \* keys of the cache
    MaxNotices      \* bound: pushes (the code: no limit)

ASSUME NoticeAssumption == MaxNotices \in Nat /\ Peers # {}

VARIABLES
    pages,      \* m_connections: those that are open, and what they show
    cache,      \* by key: what was pushed, 0 for nothing
    push,       \* by thread: what it is pushing
    pushed      \* by key: what was pushed last; keys pushed by two at a time

noticeVars == <<pages, cache, push, pushed>>

NoticeInit ==
    /\ pages = [b \in Pages |-> [at |-> "closed", shows |-> [k \in Peers |-> 0], raced |-> {}]]
    /\ cache = [k \in Peers |-> 0]
    /\ push = [t \in Publishers |-> [at |-> "idle", key |-> CHOOSE k \in Peers : TRUE, value |-> 0, left |-> {}]]
    /\ pushed = [last |-> [k \in Peers |-> 0], number |-> 0, mixed |-> {}]

Open == {b \in Pages : pages[b].at # "closed"}
Pushing(k) == {t \in Publishers : push[t].at # "idle" /\ push[t].key = k}
NoneOpening == \A b \in Pages : pages[b].at # "opening"

\* on_open(): into the list, and then what is in the cache.
OnOpen(b) ==
    /\ pages[b].at = "closed" /\ NoneOpening
    /\ pages' = [pages EXCEPT ![b] = [at |-> "opening", shows |-> [k \in Peers |-> 0],
                                      raced |-> {k \in Peers : Pushing(k) # {}}]]
    /\ UNCHANGED <<cache, push, pushed>>
\* Mutated form of SendCache: sends nothing.
SendCacheMissing(b) ==
    /\ pages[b].at = "opening"
    /\ pages' = [pages EXCEPT ![b].at = "open"]
    /\ UNCHANGED <<cache, push, pushed>>
SendCache(b) ==
    /\ pages[b].at = "opening"
    /\ pages' = [pages EXCEPT ![b].at = "open",
                   ![b].shows = [k \in Peers |-> IF cache[k] = 0 THEN @[k] ELSE cache[k]]]
    /\ UNCHANGED <<cache, push, pushed>>
OnClose(b) ==
    /\ pages[b].at = "open" /\ NoneOpening
    /\ pages' = [pages EXCEPT ![b].at = "closed"]
    /\ push' = [t \in Publishers |-> [push[t] EXCEPT !.left = @ \ {b}]]
    /\ UNCHANGED <<cache, pushed>>

\* push(): to each connection, without a lock of the list, and then in the cache.
Publish(t, k) ==
    /\ push[t].at = "idle" /\ pushed.number < MaxNotices
    /\ push' = [push EXCEPT ![t] = [at |-> "sending", key |-> k, value |-> pushed.number + 1,
                                    left |-> Open]]
    /\ pushed' = [last |-> [pushed.last EXCEPT ![k] = pushed.number + 1],
                  number |-> pushed.number + 1,
                  mixed |-> IF Pushing(k) = {} THEN pushed.mixed \ {k} ELSE pushed.mixed \cup {k}]
    /\ pages' = [b \in Pages |-> IF pages[b].at = "opening"
                                 THEN [pages[b] EXCEPT !.raced = @ \cup {k}] ELSE
                                 IF Pushing(k) = {} THEN [pages[b] EXCEPT !.raced = @ \ {k}] ELSE pages[b]]
    /\ UNCHANGED cache
Send(t) ==
    /\ push[t].at = "sending" /\ push[t].left # {}
    /\ \E b \in push[t].left :
          /\ pages' = [pages EXCEPT ![b].shows[push[t].key] = push[t].value]
          /\ push' = [push EXCEPT ![t].left = @ \ {b}]
    /\ UNCHANGED <<cache, pushed>>
\* A connection that came meanwhile may be met, or not.
SendLate(t) ==
    /\ push[t].at = "sending"
    /\ \E b \in {p \in Open : push[t].key \in pages[p].raced} :
          pages' = [pages EXCEPT ![b].shows[push[t].key] = push[t].value]
    /\ UNCHANGED <<cache, push, pushed>>
Remembered(t) ==
    /\ push[t].at = "sending" /\ push[t].left = {}
    /\ cache' = [cache EXCEPT ![push[t].key] = push[t].value]
    /\ push' = [push EXCEPT ![t].at = "idle"]
    /\ UNCHANGED <<pages, pushed>>

NoticeNext ==
    \/ \E b \in Pages : OnOpen(b) \/ SendCache(b) \/ OnClose(b)
    \/ \E t \in Publishers : Send(t) \/ SendLate(t) \/ Remembered(t) \/ \E k \in Peers : Publish(t, k)

NoticeSpec == NoticeInit /\ [][NoticeNext]_noticeVars

-----------------------------------------------------------------------------
(* Properties.                                                             *)

\* Once no push of a key is under way, the cache and every page have what was
\* pushed last, unless two pushes of the key overlapped, or the page was opened
\* during the last one: it may have been given the value before, after the new one.
NoticeSound ==
    \A k \in Peers : Pushing(k) = {} /\ k \notin pushed.mixed =>
       /\ cache[k] = pushed.last[k]
       /\ \A b \in Pages : pages[b].at = "open" /\ k \notin pages[b].raced =>
             pages[b].shows[k] = pushed.last[k]
=============================================================================
