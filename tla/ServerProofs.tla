---------------------------- MODULE ServerProofs -----------------------------
(***************************************************************************)
(* Proofs about what serves others over a network.  Over HTTP: Notices,    *)
(* WebSessions, Statistics and RestControls.  At ports of their own:       *)
(* RtspServer, PixelServer, LcdServer and VncServer.                       *)
(***************************************************************************)
EXTENDS Notices, WebSessions, Statistics, RestControls, RtspServer, PixelServer, LcdServer, VncServer, FiniteSetTheorems, SequenceTheorems, TLAPS

-----------------------------------------------------------------------------
(***************************************************************************)
(* Notices: what pages are told, for any set of pages, of threads that     *)
(* publish and of keys.                                                    *)
(*                                                                         *)
(* NoticeSound speaks of keys that nobody pushes.  Inductive is what also  *)
(* says how far a push is: a page shows the newest notice or is among      *)
(* those the push still has to send to.                                    *)
(***************************************************************************)

PageStates == [at : {"closed", "opening", "open"}, shows : [Peers -> Nat], raced : SUBSET Peers]
PushStates == [at : {"idle", "sending"}, key : Peers, value : Nat, left : SUBSET Pages]

NoticeTypeOK ==
    /\ pages \in [Pages -> PageStates]
    /\ cache \in [Peers -> Nat]
    /\ push \in [Publishers -> PushStates]
    /\ pushed \in [last : [Peers -> Nat], number : Nat, mixed : SUBSET Peers]

\* A key whose pushes did not overlap has one at most, of what was pushed last.
OnePush ==
    \A k \in Peers \ pushed.mixed :
       /\ \A t, u \in Pushing(k) : t = u
       /\ \A t \in Pushing(k) : push[t].value = pushed.last[k]
       /\ Pushing(k) = {} => cache[k] = pushed.last[k]

\* A page that is being opened has nothing of the keys that were left alone.
OpeningUntold ==
    \A b \in Pages, k \in Peers :
       pages[b].at = "opening" /\ k \notin pages[b].raced =>
          Pushing(k) = {} /\ pages[b].shows[k] = 0

ToldOrToBeTold ==
    \A b \in Pages, k \in Peers \ pushed.mixed :
       pages[b].at = "open" /\ k \notin pages[b].raced =>
          \/ pages[b].shows[k] = pushed.last[k]
          \/ \E t \in Pushing(k) : b \in push[t].left

NoticeInv == NoticeTypeOK /\ OnePush /\ OpeningUntold /\ ToldOrToBeTold

USE DEF PageStates, PushStates

(* A page of which some fields are set is a page still.                    *)
LEMMA PageFields ==
    ASSUME NEW p \in PageStates, NEW at \in {"closed", "opening", "open"},
           NEW shows \in [Peers -> Nat]
    PROVE  /\ [p EXCEPT !.at = at] \in PageStates
           /\ [p EXCEPT !.shows = shows] \in PageStates
           /\ [p EXCEPT !.at = at, !.shows = shows] \in PageStates
  OBVIOUS

LEMMA PageTyped == ASSUME NoticeTypeOK, NEW b \in Pages PROVE pages[b] \in PageStates
  BY DEF NoticeTypeOK

LEMMA NoticeInvInit == NoticeInit => NoticeInv
  <1> SUFFICES ASSUME NoticeInit PROVE NoticeInv
    OBVIOUS
  <1>1. (CHOOSE k \in Peers : TRUE) \in Peers
    BY NoticeAssumption
  <1>2. NoticeTypeOK
    BY <1>1 DEF NoticeInit, NoticeTypeOK
  <1>3. OnePush /\ OpeningUntold /\ ToldOrToBeTold
    BY DEF NoticeInit, OnePush, OpeningUntold, ToldOrToBeTold, Pushing
  <1> QED
    BY <1>2, <1>3 DEF NoticeInv

LEMMA NoticeInvStep == NoticeInv /\ [NoticeNext]_noticeVars => NoticeInv'
  <1> SUFFICES ASSUME NoticeInv, [NoticeNext]_noticeVars PROVE NoticeInv'
    OBVIOUS
  <1> USE DEF NoticeInv
  <1>0. CASE UNCHANGED noticeVars
    BY <1>0 DEF noticeVars, NoticeTypeOK, OnePush, OpeningUntold, ToldOrToBeTold, Pushing
  <1>1. ASSUME NEW b \in Pages, OnOpen(b) PROVE NoticeInv'
    <2>1. NoticeTypeOK'
      BY <1>1 DEF OnOpen, NoticeTypeOK
    <2>2. OnePush'
      BY <1>1 DEF OnOpen, OnePush, Pushing
    <2>3. /\ \A k \in Peers : Pushing(k)' = Pushing(k)
          /\ pushed' = pushed /\ push' = push
          /\ \A a \in Pages \ {b} : pages'[a] = pages[a]
          /\ pages'[b].at = "opening"
          /\ \A k \in Peers : pages'[b].shows[k] = 0
          /\ pages'[b].raced = {k \in Peers : Pushing(k) # {}}
      BY <1>1 DEF OnOpen, Pushing, NoticeTypeOK
    <2>4. OpeningUntold'
      BY <2>3 DEF OpeningUntold
    <2>5. ToldOrToBeTold'
      BY <2>3 DEF ToldOrToBeTold
    <2> QED
      BY <2>1, <2>2, <2>4, <2>5
  <1>2. ASSUME NEW b \in Pages, SendCache(b) PROVE NoticeInv'
    <2>1. NoticeTypeOK'
      <3>1. [k \in Peers |-> IF cache[k] = 0 THEN pages[b].shows[k] ELSE cache[k]]
              \in [Peers -> Nat]
        BY DEF NoticeTypeOK
      <3>2. pages' = [pages EXCEPT ![b] = pages'[b]] /\ pages'[b] \in PageStates
        <4> DEFINE p == [pages[b] EXCEPT !.at = "open",
                           !.shows = [k \in Peers |-> IF cache[k] = 0 THEN pages[b].shows[k]
                                                      ELSE cache[k]]]
        <4>1. p \in PageStates
          <5> HIDE DEF PageStates
          <5> QED
            BY <3>1, PageTyped, PageFields
        <4>2. pages' = [pages EXCEPT ![b] = p]
          BY <1>2 DEF SendCache
        <4>3. DOMAIN pages = Pages
          BY DEF NoticeTypeOK
        <4> HIDE DEF p, PageStates, NoticeInv
        <4> QED
          BY <4>1, <4>2, <4>3
      <3> HIDE DEF PageStates
      <3> QED
        BY <1>2, <3>2 DEF SendCache, NoticeTypeOK
    <2>2. OnePush'
      BY <1>2 DEF SendCache, OnePush, Pushing
    <2>3. OpeningUntold'
      BY <1>2 DEF SendCache, OpeningUntold, Pushing, NoticeTypeOK
    <2>4. ToldOrToBeTold'
      <3> SUFFICES ASSUME NEW a \in Pages, NEW k \in Peers, k \notin pushed'.mixed,
                          pages'[a].at = "open", k \notin pages'[a].raced
                   PROVE  \/ pages'[a].shows[k] = pushed'.last[k]
                          \/ \E t \in Pushing(k)' : a \in push'[t].left
        BY DEF ToldOrToBeTold
      <3>1. Pushing(k)' = Pushing(k) /\ push' = push /\ pushed' = pushed
        BY <1>2 DEF SendCache, Pushing
      <3>2. CASE a # b
        <4>1. pages'[a] = pages[a]
          BY <1>2, <3>2 DEF SendCache, NoticeTypeOK
        <4> QED
          BY <3>1, <4>1 DEF ToldOrToBeTold
      <3>3. CASE a = b
        <4>1. /\ pages[b].at = "opening" /\ pages'[b].raced = pages[b].raced
              /\ pages'[b].shows[k] = IF cache[k] = 0 THEN pages[b].shows[k] ELSE cache[k]
          BY <1>2 DEF SendCache, NoticeTypeOK
        <4>2. Pushing(k) = {} /\ pages[b].shows[k] = 0
          BY <3>3, <4>1 DEF OpeningUntold
        <4>3. cache[k] = pushed.last[k]
          BY <3>1, <4>2 DEF OnePush
        <4> QED
          BY <3>1, <3>3, <4>1, <4>2, <4>3
      <3> QED
        BY <3>2, <3>3
    <2> QED
      BY <2>1, <2>2, <2>3, <2>4
  <1>3. ASSUME NEW b \in Pages, OnClose(b) PROVE NoticeInv'
    <2>1. NoticeTypeOK'
      <3>1. pages' \in [Pages -> PageStates]
        <4> HIDE DEF PageStates
        <4>1. [pages[b] EXCEPT !.at = "closed"] \in PageStates
          <5>1. cache \in [Peers -> Nat]
            BY DEF NoticeTypeOK
          <5> QED
            BY <5>1, PageTyped, PageFields
        <4> QED
          BY <1>3, <4>1 DEF OnClose, NoticeTypeOK
      <3>2. push' \in [Publishers -> PushStates]
        <4>1. ASSUME NEW t \in Publishers PROVE [push[t] EXCEPT !.left = @ \ {b}] \in PushStates
          <5>1. push[t] \in PushStates
            BY DEF NoticeTypeOK
          <5> HIDE DEF NoticeInv
          <5> QED
            BY <5>1
        <4> HIDE DEF PushStates
        <4> QED
          BY <1>3, <4>1 DEF OnClose
      <3> QED
        BY <1>3, <3>1, <3>2 DEF OnClose, NoticeTypeOK
    <2>2. \A k \in Peers : Pushing(k)' = Pushing(k) /\ Pushing(k) \subseteq Publishers
      BY <1>3 DEF OnClose, Pushing, NoticeTypeOK
    <2>3. \A t \in Publishers : push'[t].value = push[t].value /\ push'[t].left = push[t].left \ {b}
      BY <1>3 DEF OnClose, NoticeTypeOK
    <2>4. OnePush'
      BY <1>3, <2>2, <2>3 DEF OnClose, OnePush
    <2>5. OpeningUntold'
      BY <1>3, <2>2 DEF OnClose, OpeningUntold, NoticeTypeOK
    <2>6. ToldOrToBeTold'
      <3>1. \A a \in Pages : pages'[a].at = "open" => a # b /\ pages'[a] = pages[a]
        BY <1>3 DEF OnClose, NoticeTypeOK
      <3>2. pushed' = pushed
        BY <1>3 DEF OnClose
      <3> QED
        BY <2>2, <2>3, <3>1, <3>2 DEF ToldOrToBeTold
    <2> QED
      BY <2>1, <2>4, <2>5, <2>6
  <1>4. ASSUME NEW t \in Publishers, NEW k \in Peers, Publish(t, k) PROVE NoticeInv'
    <2>1. NoticeTypeOK'
      <3>1. push' \in [Publishers -> PushStates]
        BY <1>4 DEF Publish, NoticeTypeOK, Open
      <3>2. \A b \in Pages : pages'[b] \in PageStates
        <4> SUFFICES ASSUME NEW b \in Pages PROVE pages'[b] \in PageStates
          OBVIOUS
        <4>1. /\ pages[b] \in PageStates
              /\ [pages[b] EXCEPT !.raced = @ \cup {k}] \in PageStates
              /\ [pages[b] EXCEPT !.raced = @ \ {k}] \in PageStates
          BY DEF NoticeTypeOK
        <4>2. \/ pages'[b] = pages[b] \/ pages'[b] = [pages[b] EXCEPT !.raced = @ \cup {k}]
              \/ pages'[b] = [pages[b] EXCEPT !.raced = @ \ {k}]
          BY <1>4 DEF Publish
        <4> HIDE DEF PageStates, NoticeInv
        <4> QED
          BY <4>1, <4>2
      <3>3. pages' \in [Pages -> PageStates]
        <4> HIDE DEF PageStates
        <4> QED
          BY <1>4, <3>2 DEF Publish
      <3>4. pushed' \in [last : [Peers -> Nat], number : Nat, mixed : SUBSET Peers]
        BY <1>4 DEF Publish, NoticeTypeOK
      <3> QED
        BY <1>4, <3>1, <3>3, <3>4 DEF Publish, NoticeTypeOK
    <2>2. /\ Pushing(k)' = Pushing(k) \cup {t}
          /\ \A l \in Peers \ {k} : Pushing(l)' = Pushing(l)
          /\ \A u \in Publishers \ {t} : push'[u] = push[u]
          /\ push'[t].value = pushed'.last[k] /\ push'[t].left = Open
          /\ \A l \in Peers \ {k} : pushed'.last[l] = pushed.last[l]
          /\ t \notin Pushing(k)
      BY <1>4 DEF Publish, Pushing, NoticeTypeOK
    <2>3. OnePush'
      <3>1. \A l \in Peers \ {k} : l \in pushed'.mixed <=> l \in pushed.mixed
        BY <1>4 DEF Publish, NoticeTypeOK
      <3>2. k \notin pushed'.mixed => Pushing(k) = {}
        BY <1>4 DEF Publish, NoticeTypeOK
      <3> QED
        BY <1>4, <2>2, <3>1, <3>2 DEF Publish, OnePush, Pushing
    <2>4. OpeningUntold'
      BY <1>4, <2>2 DEF Publish, OpeningUntold, NoticeTypeOK
    <2>5. ToldOrToBeTold'
      <3> SUFFICES ASSUME NEW b \in Pages, NEW l \in Peers, l \notin pushed'.mixed,
                          pages'[b].at = "open", l \notin pages'[b].raced
                   PROVE  \/ pages'[b].shows[l] = pushed'.last[l]
                          \/ \E u \in Pushing(l)' : b \in push'[u].left
        BY DEF ToldOrToBeTold
      <3>1. pages[b].at = "open" /\ pages'[b].shows = pages[b].shows
        BY <1>4 DEF Publish, NoticeTypeOK
      <3>2. CASE l = k
        <4>1. b \in push'[t].left /\ t \in Pushing(l)'
          BY <2>2, <3>1, <3>2 DEF Open
        <4> QED
          BY <4>1
      <3>3. CASE l # k
        <4>1. l \notin pages[b].raced /\ l \notin pushed.mixed
          BY <1>4, <3>3 DEF Publish, NoticeTypeOK
        <4>2. \/ pages[b].shows[l] = pushed.last[l]
              \/ \E u \in Pushing(l) : b \in push[u].left
          BY <3>1, <4>1 DEF ToldOrToBeTold
        <4>3. t \notin Pushing(l)
          BY <1>4 DEF Publish, Pushing
        <4> QED
          BY <2>2, <3>1, <3>3, <4>2, <4>3 DEF Pushing
      <3> QED
        BY <3>2, <3>3
    <2> QED
      BY <2>1, <2>3, <2>4, <2>5
  <1>5. ASSUME NEW t \in Publishers, Send(t) PROVE NoticeInv'
    <2>1. PICK b \in push[t].left :
            /\ pages' = [pages EXCEPT ![b].shows[push[t].key] = push[t].value]
            /\ push' = [push EXCEPT ![t].left = @ \ {b}]
      BY <1>5 DEF Send
    <2>2. /\ \A k \in Peers : Pushing(k)' = Pushing(k)
          /\ b \in Pages /\ t \in Pushing(push[t].key) /\ push[t].key \in Peers
          /\ \A u \in Publishers : /\ push'[u].value = push[u].value /\ push'[u].key = push[u].key
                                   /\ u # t => push'[u] = push[u]
          /\ push'[t].left = push[t].left \ {b}
      BY <1>5, <2>1 DEF Send, Pushing, NoticeTypeOK
    <2>3. /\ \A a \in Pages : /\ pages'[a].at = pages[a].at /\ pages'[a].raced = pages[a].raced
                              /\ a # b => pages'[a] = pages[a]
          /\ \A k \in Peers \ {push[t].key} : pages'[b].shows[k] = pages[b].shows[k]
          /\ pages'[b].shows[push[t].key] = push[t].value
      BY <2>1, <2>2 DEF NoticeTypeOK
    <2>4. NoticeTypeOK'
      <3>1. [pages[b].shows EXCEPT ![push[t].key] = push[t].value] \in [Peers -> Nat]
        BY <2>2 DEF NoticeTypeOK
      <3>2. b \in Pages /\ DOMAIN pages = Pages /\ pages[b] \in PageStates
        BY <2>2 DEF NoticeTypeOK
      <3>3. pages' = [pages EXCEPT ![b] = pages'[b]] /\ pages'[b] \in PageStates
        <4>1. pages' = [pages EXCEPT ![b] = [pages[b] EXCEPT
                          !.shows = [pages[b].shows EXCEPT ![push[t].key] = push[t].value]]]
          BY <2>1
        <4> HIDE DEF NoticeInv
        <4> QED
          BY <4>1, <3>1, <3>2
      <3>4. [push[t] EXCEPT !.left = @ \ {b}] \in PushStates
        <4>1. push[t] \in PushStates
          BY DEF NoticeTypeOK
        <4> HIDE DEF NoticeInv
        <4> QED
          BY <4>1
      <3>5. push' \in [Publishers -> PushStates]
        <4> HIDE DEF PushStates
        <4> QED
          BY <2>1, <3>4 DEF NoticeTypeOK
      <3> HIDE DEF PageStates
      <3> QED
        BY <1>5, <2>2, <3>3, <3>5 DEF Send, NoticeTypeOK
    <2>5. OnePush'
      <3>1. pushed' = pushed /\ cache' = cache
        BY <1>5 DEF Send
      <3>2. \A k \in Peers : \A u \in Pushing(k) : u \in Publishers
        BY DEF Pushing
      <3> QED
        BY <2>2, <3>1, <3>2 DEF OnePush
    <2>6. OpeningUntold'
      BY <2>2, <2>3 DEF OpeningUntold
    <2>7. ToldOrToBeTold'
      BY <1>5, <2>2, <2>3 DEF Send, ToldOrToBeTold, OnePush, Pushing
    <2> QED
      BY <2>4, <2>5, <2>6, <2>7
  <1>6. ASSUME NEW t \in Publishers, SendLate(t) PROVE NoticeInv'
    <2>1. PICK b \in {p \in Open : push[t].key \in pages[p].raced} :
            pages' = [pages EXCEPT ![b].shows[push[t].key] = push[t].value]
      BY <1>6 DEF SendLate
    <2>2. /\ b \in Pages /\ push[t].key \in pages[b].raced
          /\ \A a \in Pages : /\ pages'[a].at = pages[a].at /\ pages'[a].raced = pages[a].raced
                              /\ a # b => pages'[a] = pages[a]
          /\ \A k \in Peers \ {push[t].key} : pages'[b].shows[k] = pages[b].shows[k]
      BY <2>1 DEF NoticeTypeOK, Open
    <2>3. NoticeTypeOK'
      <3>1. [pages[b].shows EXCEPT ![push[t].key] = push[t].value] \in [Peers -> Nat]
        BY <2>2 DEF NoticeTypeOK
      <3>2. pages' = [pages EXCEPT ![b] = pages'[b]] /\ pages'[b] \in PageStates
        <4> DEFINE p == [pages[b] EXCEPT
                           !.shows = [pages[b].shows EXCEPT ![push[t].key] = push[t].value]]
        <4>1. p \in PageStates
          <5> HIDE DEF PageStates
          <5> QED
            BY <2>2, <3>1, PageTyped, PageFields
        <4>2. pages' = [pages EXCEPT ![b] = p]
          BY <2>1
        <4>3. DOMAIN pages = Pages
          BY DEF NoticeTypeOK
        <4> HIDE DEF p, PageStates, NoticeInv
        <4> QED
          BY <2>2, <4>1, <4>2, <4>3
      <3> HIDE DEF PageStates
      <3> QED
        BY <1>6, <2>2, <3>2 DEF SendLate, NoticeTypeOK
    <2>4. OnePush'
      BY <1>6 DEF SendLate, OnePush, Pushing
    <2>5. OpeningUntold' /\ ToldOrToBeTold'
      BY <1>6, <2>2 DEF SendLate, OpeningUntold, ToldOrToBeTold, Pushing
    <2> QED
      BY <2>3, <2>4, <2>5
  <1>7. ASSUME NEW t \in Publishers, Remembered(t) PROVE NoticeInv'
    <2>1. /\ push[t].key \in Peers /\ t \in Pushing(push[t].key) /\ push[t].left = {}
          /\ \A k \in Peers : Pushing(k)' = Pushing(k) \ {t}
          /\ \A k \in Peers \ {push[t].key} : t \notin Pushing(k)
          /\ \A u \in Publishers : push'[u].value = push[u].value /\ push'[u].left = push[u].left
          /\ cache'[push[t].key] = push[t].value
          /\ \A k \in Peers \ {push[t].key} : cache'[k] = cache[k]
      BY <1>7 DEF Remembered, Pushing, NoticeTypeOK
    <2>2. NoticeTypeOK'
      BY <1>7 DEF Remembered, NoticeTypeOK
    <2>3. OnePush'
      BY <1>7, <2>1 DEF Remembered, OnePush, Pushing
    <2>4. OpeningUntold'
      BY <1>7, <2>1 DEF Remembered, OpeningUntold
    <2>5. ToldOrToBeTold'
      BY <1>7, <2>1 DEF Remembered, ToldOrToBeTold, Pushing
    <2> QED
      BY <2>2, <2>3, <2>4, <2>5
  <1> QED
    BY <1>0, <1>1, <1>2, <1>3, <1>4, <1>5, <1>6, <1>7 DEF NoticeNext

-----------------------------------------------------------------------------
(* The inductive invariant, of every reachable state.                      *)
THEOREM NoticeInvHolds == NoticeSpec => []NoticeInv
  BY NoticeInvInit, NoticeInvStep, PTL DEF NoticeSpec

(* The cache and the pages have what was pushed last, whatever the order   *)
(* in which pages come and go and threads push.                            *)
THEOREM NoticesArrive == NoticeSpec => []NoticeSound
  <1>1. NoticeInv => NoticeSound
    BY DEF NoticeInv, NoticeSound, OnePush, ToldOrToBeTold
  <1> QED
    BY <1>1, NoticeInvHolds, PTL

-----------------------------------------------------------------------------
(***************************************************************************)
(* WebSessions: cookies and the pages behind them, for any set of browsers *)
(* and of users.                                                           *)
(*                                                                         *)
(* That a cookie in use is not removed needs that the server does not hold *)
(* it for older than its browser does, whatever other requests do between  *)
(* the two calls of one.                                                   *)
(***************************************************************************)

Cookies == [key : Nat, user : WebUsers, since : Nat]

WebStates == [cookies : SUBSET Cookies, keys : Nat, now : Nat,
              admin : BOOLEAN, archive : BOOLEAN, rest : BOOLEAN]

BrowserStates == [key : Nat, seen : Nat, at : {"idle", "authorize", "update", "page"},
                  path : Paths \cup {"none"}, user : WebUsers \cup {NoUser},
                  page : Paths \cup {"none", "redirect", "404"}]

\* A key was given before, and to one cookie; a user has one; none is of the future.
OneCookie(w) ==
    /\ \A c \in w.cookies : c.key \in 1 .. w.keys /\ c.since <= w.now
    /\ \A c, d \in w.cookies : c.user = d.user \/ c.key = d.key => c = d

\* While a cookie was seen recently by its browser, the server has it, and it is not
\* older there than the browser knows.
Kept(b, w) ==
    /\ b.key <= w.keys
    /\ b.key # NoKey /\ w.now <= b.seen + CookieAge =>
          \E c \in w.cookies : c.key = b.key /\ b.seen <= c.since

\* Pages of users go to users.
Known(b) ==
    /\ b.at = "update" => b.user \in WebUsers
    /\ b.page \in Paths \ OpenPages => b.user \in WebUsers

WebInv ==
    /\ web \in WebStates
    /\ browser \in [Browsers -> BrowserStates]
    /\ OneCookie(web)
    /\ \A b \in Browsers : Kept(browser[b], web) /\ Known(browser[b])

-----------------------------------------------------------------------------
(* What one browser becomes, and what that and the cookies are then.       *)
LEMMA BrowserStep ==
    ASSUME WebInv, NEW b \in Browsers, NEW new \in BrowserStates,
           browser' = [browser EXCEPT ![b] = new],
           web' \in WebStates, OneCookie(web'), Known(new), Kept(new, web'),
           \A a \in Browsers : Kept(browser[a], web')
    PROVE  WebInv'
  <1>1. browser \in [Browsers -> BrowserStates] /\ \A a \in Browsers : Known(browser[a])
    BY DEF WebInv
  <1>2. /\ browser' \in [Browsers -> BrowserStates]
        /\ browser'[b] = new /\ \A a \in Browsers : a # b => browser'[a] = browser[a]
    BY <1>1
  <1>3. \A a \in Browsers : Kept(browser'[a], web') /\ Known(browser'[a])
    BY <1>1, <1>2
  <1> QED
    BY <1>2, <1>3 DEF WebInv, OneCookie, Kept

(* The fields of a browser and of the cookies.                             *)
LEMMA WebFields ==
    ASSUME WebInv, NEW b \in Browsers
    PROVE  /\ web \in WebStates /\ web.cookies \subseteq Cookies /\ web.keys \in Nat /\ web.now \in Nat
           /\ browser \in [Browsers -> BrowserStates] /\ browser[b] \in BrowserStates
           /\ browser[b].key \in Nat /\ browser[b].seen \in Nat
           /\ browser[b].path \in Paths \cup {"none"} /\ browser[b].user \in WebUsers \cup {NoUser}
           /\ \A c \in web.cookies : c.key \in Nat /\ c.user \in WebUsers /\ c.since \in Nat
           /\ OneCookie(web) /\ Kept(browser[b], web) /\ Known(browser[b])
  <1>1. web \in WebStates /\ browser \in [Browsers -> BrowserStates]
    BY DEF WebInv
  <1>2. web.cookies \subseteq Cookies /\ web.keys \in Nat /\ web.now \in Nat
    BY <1>1 DEF WebStates
  <1>3. browser[b] \in BrowserStates
    BY <1>1
  <1>4. /\ browser[b].key \in Nat /\ browser[b].seen \in Nat
        /\ browser[b].path \in Paths \cup {"none"} /\ browser[b].user \in WebUsers \cup {NoUser}
    BY <1>3 DEF BrowserStates
  <1>5. \A c \in web.cookies : c.key \in Nat /\ c.user \in WebUsers /\ c.since \in Nat
    BY <1>2 DEF Cookies
  <1> QED
    BY <1>1, <1>2, <1>3, <1>4, <1>5 DEF WebInv

-----------------------------------------------------------------------------
(* The cookies.                                                            *)

(* Time makes it that fewer cookies have to be there.                      *)
LEMMA WebTimeInv == ASSUME WebInv, WebTime PROVE WebInv'
  <1>1. web' = [web EXCEPT !.now = web.now + 1] /\ UNCHANGED browser
    BY DEF WebTime
  <1>2. web \in WebStates /\ web.now \in Nat /\ web.now + 1 \in Nat /\ OneCookie(web)
    BY DEF WebInv, WebStates
  <1>3. /\ web' \in WebStates /\ web'.cookies = web.cookies /\ web'.keys = web.keys
        /\ web'.now = web.now + 1
    BY <1>1, <1>2 DEF WebStates
  <1>4. OneCookie(web')
    <2>1. ASSUME NEW c \in web.cookies PROVE c.key \in 1 .. web.keys /\ c.since <= web.now + 1
      <3>1. c.since \in Nat /\ c.since <= web.now /\ c.key \in 1 .. web.keys
        BY <1>2 DEF OneCookie, WebStates, Cookies
      <3> QED
        BY <1>2, <3>1
    <2> QED
      BY <1>2, <1>3, <2>1 DEF OneCookie
  <1>5. ASSUME NEW b \in Browsers PROVE Kept(browser[b], web')
    <2>1. Kept(browser[b], web) /\ browser[b].seen \in Nat
      BY WebFields
    <2>2. web.now + 1 <= browser[b].seen + CookieAge => web.now <= browser[b].seen + CookieAge
      BY <1>2, <2>1, WebAssumption
    <2> QED
      BY <1>3, <2>1, <2>2 DEF Kept
  <1>6. browser' \in [Browsers -> BrowserStates] /\ \A b \in Browsers : Known(browser'[b])
    BY <1>1 DEF WebInv
  <1> QED
    BY <1>1, <1>3, <1>4, <1>5, <1>6 DEF WebInv, OneCookie, Kept

(* What is removed was seen by no browser recently.                        *)
LEMMA CleanCookiesInv == ASSUME WebInv, CleanCookies PROVE WebInv'
  <1> DEFINE left == {c \in web.cookies : ~(c.since + CookieAge < web.now)}
  <1>1. web' = [web EXCEPT !.cookies = left] /\ UNCHANGED browser
    BY DEF CleanCookies
  <1>2. /\ web \in WebStates /\ web.cookies \subseteq Cookies /\ web.now \in Nat
        /\ OneCookie(web)
    BY DEF WebInv, WebStates
  <1>3. left \subseteq web.cookies /\ left \subseteq Cookies
    BY <1>2
  <1>4. \A c \in web.cookies : ~(c.since + CookieAge < web.now) => c \in left
    OBVIOUS
  <1> HIDE DEF left
  <1>5. /\ web' \in WebStates /\ web'.cookies = left /\ web'.keys = web.keys
        /\ web'.now = web.now
    BY <1>1, <1>2, <1>3 DEF WebStates
  <1>6. OneCookie(web')
    BY <1>2, <1>3, <1>5 DEF OneCookie
  <1>7. ASSUME NEW b \in Browsers PROVE Kept(browser[b], web')
    <2>1. Kept(browser[b], web) /\ browser[b].seen \in Nat
      BY WebFields
    <2>2. ASSUME NEW c \in web.cookies, browser[b].seen <= c.since,
                 web.now <= browser[b].seen + CookieAge
          PROVE  c \in left
      <3>1. c.since \in Nat
        BY <1>2 DEF Cookies
      <3>2. ~(c.since + CookieAge < web.now)
        BY <1>2, <2>1, <2>2, <3>1, WebAssumption
      <3> QED
        BY <1>4, <3>2
    <2> QED
      BY <1>5, <2>1, <2>2 DEF Kept
  <1>8. browser' \in [Browsers -> BrowserStates] /\ \A b \in Browsers : Known(browser'[b])
    BY <1>1 DEF WebInv
  <1> QED
    BY <1>1, <1>5, <1>6, <1>7, <1>8 DEF WebInv, OneCookie, Kept

(* A user who proves to be one gets the cookie there is, or a new one; all *)
(* others stay.                                                            *)
LEMMA CookieGiven ==
    ASSUME WebInv, NEW user \in WebUsers, NEW c, c = GetCookie(user), NEW w, w = AddCookie(c)
    PROVE  /\ w \in WebStates /\ OneCookie(w) /\ w.now = web.now /\ web.keys <= w.keys
           /\ web.cookies \subseteq w.cookies /\ c \in w.cookies
           /\ c.key \in Nat /\ c.key <= w.keys /\ c.since \in Nat
  <1>1. /\ web \in WebStates /\ web.cookies \subseteq Cookies /\ web.keys \in Nat /\ web.now \in Nat
        /\ OneCookie(web)
    BY DEF WebInv, WebStates
  <1>2. \A d \in web.cookies : /\ d.key \in Nat /\ d.user \in WebUsers /\ d.since \in Nat
                               /\ d.key \in 1 .. web.keys /\ d.key <= web.keys /\ d.since <= web.now
    BY <1>1 DEF OneCookie, Cookies
  <1>3. CASE CookiesOf(user) # {}
    <2>1. c \in CookiesOf(user)
      BY <1>3 DEF GetCookie
    <2>2. c \in web.cookies
      BY <2>1 DEF CookiesOf
    <2>3. w = web
      BY <2>2 DEF AddCookie
    <2>4. web.keys <= web.keys
      BY <1>1
    <2> QED
      BY <1>1, <1>2, <2>2, <2>3, <2>4
  <1>4. CASE CookiesOf(user) = {}
    <2>1. c = [key |-> web.keys + 1, user |-> user, since |-> web.now]
      BY <1>4 DEF GetCookie, NewCookie
    <2>2. c.key = web.keys + 1 /\ c.user = user /\ c.since = web.now /\ c \in Cookies
      BY <1>1, <2>1 DEF Cookies
    <2>3. \A d \in web.cookies : d.user # user /\ d.key # c.key
      BY <1>1, <1>2, <1>4, <2>2 DEF CookiesOf
    <2>4. c \notin web.cookies
      BY <2>3
    <2>5. w = [web EXCEPT !.cookies = web.cookies \cup {c}, !.keys = web.keys + 1]
      BY <2>4 DEF AddCookie
    <2> DEFINE more == web.cookies \cup {c}
    <2>6. /\ more \in SUBSET Cookies /\ c \in more /\ web.cookies \subseteq more
          /\ \A d \in more : d \in web.cookies \/ d = c
      BY <1>1, <2>2
    <2> HIDE DEF more
    <2>7. web.keys + 1 \in Nat /\ web.keys <= web.keys + 1
      BY <1>1
    <2>8. w \in WebStates /\ w.cookies = more /\ w.keys = web.keys + 1 /\ w.now = web.now
      BY <1>1, <2>5, <2>6, <2>7 DEF WebStates, more
    <2>9. OneCookie(w)
      <3>1. ASSUME NEW d \in more PROVE d.key \in 1 .. web.keys + 1 /\ d.since <= web.now
        BY <1>1, <1>2, <2>2, <2>6
      <3>2. ASSUME NEW d \in more, NEW e \in more, d.user = e.user \/ d.key = e.key PROVE d = e
        <4>1. d \in web.cookies /\ e \in web.cookies => d = e
          BY <1>1, <3>2 DEF OneCookie
        <4> QED
          BY <2>2, <2>3, <2>6, <3>2, <4>1
      <3> QED
        BY <2>8, <3>1, <3>2 DEF OneCookie
    <2>10. c.key \in Nat /\ c.key <= w.keys /\ c.since \in Nat
      BY <1>1, <2>2, <2>7, <2>8
    <2> QED
      BY <2>6, <2>7, <2>8, <2>9, <2>10
  <1> QED
    BY <1>3, <1>4

(* Nothing is removed: each browser has what it had.                       *)
LEMMA MoreCookiesKept ==
    ASSUME WebInv, NEW b \in Browsers, NEW w \in WebStates, w.now = web.now, web.keys <= w.keys,
           web.cookies \subseteq w.cookies
    PROVE  Kept(browser[b], w)
  <1>1. /\ Kept(browser[b], web) /\ browser[b].key \in Nat /\ web.keys \in Nat
    BY WebFields
  <1>2. w.keys \in Nat
    BY DEF WebStates
  <1>3. browser[b].key <= w.keys
    BY <1>1, <1>2 DEF Kept
  <1> QED
    BY <1>1, <1>3 DEF Kept

(* That a cookie was used makes it younger, and leaves the others.         *)
LEMMA CookieUpdated ==
    ASSUME WebInv, NEW key \in Nat, NEW w, w = [web EXCEPT !.cookies = UpdateCookie(key)]
    PROVE  /\ w \in WebStates /\ OneCookie(w) /\ w.now = web.now /\ w.keys = web.keys
           /\ \A a \in Browsers : Kept(browser[a], w)
           /\ WithKey(key) # {} => \E c \in w.cookies : c.key = key /\ c.since = web.now
  <1> DEFINE Young(c) == IF c.key = key THEN [c EXCEPT !.since = web.now] ELSE c
             young == UpdateCookie(key)
  <1>1. /\ web \in WebStates /\ web.cookies \subseteq Cookies /\ web.keys \in Nat /\ web.now \in Nat
        /\ OneCookie(web)
    BY DEF WebInv, WebStates
  <1>2. ASSUME NEW c \in web.cookies
        PROVE  /\ Young(c) \in Cookies /\ Young(c).key = c.key /\ Young(c).user = c.user
               /\ c.since <= Young(c).since /\ Young(c).since <= web.now
               /\ c.key = key => Young(c).since = web.now
    <2>1. c \in Cookies /\ c.since \in Nat /\ c.since <= web.now
      BY <1>1 DEF OneCookie, Cookies
    <2>2. CASE c.key = key
      <3>1. /\ Young(c) \in Cookies /\ Young(c).key = c.key /\ Young(c).user = c.user
            /\ Young(c).since = web.now
        BY <1>1, <2>1, <2>2 DEF Cookies
      <3> HIDE DEF Young
      <3> QED
        BY <1>1, <2>1, <3>1
    <2>3. CASE c.key # key
      <3>1. Young(c) = c
        BY <2>3
      <3> HIDE DEF Young
      <3> QED
        BY <1>1, <2>1, <2>3, <3>1
    <2> QED
      BY <2>2, <2>3
  <1>3. /\ \A c \in web.cookies : Young(c) \in young
        /\ \A d \in young : \E c \in web.cookies : d = Young(c)
    BY DEF UpdateCookie
  <1> HIDE DEF Young, young
  <1>4. young \in SUBSET Cookies
    BY <1>2, <1>3
  <1>5. w \in WebStates /\ w.cookies = young /\ w.keys = web.keys /\ w.now = web.now
    <2>1. w = [web EXCEPT !.cookies = young]
      BY DEF young
    <2> QED
      BY <1>1, <1>4, <2>1 DEF WebStates
  <1>6. OneCookie(w)
    <2>1. ASSUME NEW d \in young PROVE d.key \in 1 .. web.keys /\ d.since <= web.now
      BY <1>1, <1>2, <1>3 DEF OneCookie
    <2>2. ASSUME NEW d \in young, NEW e \in young, d.user = e.user \/ d.key = e.key PROVE d = e
      <3>1. PICK c \in web.cookies : d = Young(c)
        BY <1>3
      <3>2. PICK f \in web.cookies : e = Young(f)
        BY <1>3
      <3>3. c.user = f.user \/ c.key = f.key
        BY <1>2, <2>2, <3>1, <3>2
      <3>4. c = f
        BY <1>1, <3>3 DEF OneCookie
      <3> QED
        BY <3>1, <3>2, <3>4
    <2> QED
      BY <1>5, <2>1, <2>2 DEF OneCookie
  <1>7. ASSUME NEW a \in Browsers PROVE Kept(browser[a], w)
    <2>1. Kept(browser[a], web) /\ browser[a].key \in Nat /\ browser[a].seen \in Nat
      BY WebFields
    <2>2. browser[a].key # NoKey /\ web.now <= browser[a].seen + CookieAge =>
             \E c \in young : c.key = browser[a].key /\ browser[a].seen <= c.since
      <3> SUFFICES ASSUME browser[a].key # NoKey, web.now <= browser[a].seen + CookieAge
                   PROVE  \E c \in young : c.key = browser[a].key /\ browser[a].seen <= c.since
        OBVIOUS
      <3>1. PICK c \in web.cookies : c.key = browser[a].key /\ browser[a].seen <= c.since
        BY <2>1 DEF Kept
      <3>2. c.since \in Nat /\ Young(c).since \in Nat /\ c.since <= Young(c).since
        BY <1>1, <1>2 DEF Cookies
      <3>3. browser[a].seen <= Young(c).since
        BY <2>1, <3>1, <3>2
      <3>4. Young(c) \in young /\ Young(c).key = browser[a].key
        BY <1>2, <1>3, <3>1
      <3> QED
        BY <3>3, <3>4
    <2> QED
      BY <1>5, <2>1, <2>2 DEF Kept
  <1>8. WithKey(key) # {} => \E c \in w.cookies : c.key = key /\ c.since = web.now
    <2> SUFFICES ASSUME WithKey(key) # {} PROVE \E c \in young : c.key = key /\ c.since = web.now
      BY <1>5
    <2>1. PICK c \in web.cookies : c.key = key
      BY DEF WithKey
    <2> QED
      BY <1>2, <1>3, <2>1
  <1> QED
    BY <1>5, <1>6, <1>7, <1>8

(* The name of a user is not a key: nothing is deleted.                    *)
LEMMA NothingDeleted ==
    ASSUME WebInv, NEW user \in WebUsers PROVE DeleteCookieForUser(user) = web.cookies
  <1>1. \A c \in web.cookies : c.key \in Nat
    BY DEF WebInv, WebStates, Cookies
  <1> QED
    BY <1>1, WebAssumption DEF DeleteCookieForUser

-----------------------------------------------------------------------------
(* Requests.                                                               *)

LEMMA RequestsInv == ASSUME WebInv, NEW b \in Browsers, Requests(b) PROVE WebInv'
  <1>1. PICK path \in Paths : browser' = [browser EXCEPT ![b].at = "authorize", ![b].path = path]
    BY DEF Requests
  <1> DEFINE new == [browser[b] EXCEPT !.at = "authorize", !.path = path]
  <1>2. browser \in [Browsers -> BrowserStates] /\ browser[b] \in BrowserStates /\ UNCHANGED web
    BY WebFields DEF Requests
  <1>3. browser' = [browser EXCEPT ![b] = new]
    BY <1>1, <1>2
  <1>4. path \in Paths \cup {"none"}
    OBVIOUS
  <1>5. /\ new \in BrowserStates /\ new.key = browser[b].key /\ new.seen = browser[b].seen
        /\ new.at = "authorize" /\ new.user = browser[b].user /\ new.page = browser[b].page
    BY <1>2, <1>4 DEF BrowserStates
  <1> HIDE DEF new
  <1>6. Known(new) /\ Kept(new, web)
    BY <1>5, WebFields DEF Known, Kept
  <1>7. web \in WebStates /\ OneCookie(web) /\ \A a \in Browsers : Kept(browser[a], web)
    BY DEF WebInv
  <1> QED
    BY <1>2, <1>3, <1>5, <1>6, <1>7, BrowserStep

(* The page that answers, for a user that is known or for nobody.          *)
LEMMA PageFor ==
    ASSUME NEW path \in Paths \cup {"none"}, NEW ok \in BOOLEAN, NEW page, page = PageOf(path, ok)
    PROVE  /\ page \in Paths \cup {"none", "redirect", "404"}
           /\ page \in Paths \ OpenPages => ok
  <1>1. CASE path \in OpenPages
    BY <1>1 DEF PageOf, OpenPages, Paths
  <1>2. CASE path \notin OpenPages /\ ~ok
    BY <1>2 DEF PageOf, Paths
  <1>3. CASE path \notin OpenPages /\ ok
    BY <1>3 DEF PageOf, Paths
  <1> QED
    BY <1>1, <1>2, <1>3

LEMMA Served ==
    ASSUME WebInv, NEW b \in Browsers, NEW user \in WebUsers \cup {NoUser}
    PROVE  \E page \in Paths \cup {"none", "redirect", "404"} :
              /\ page \in Paths \ OpenPages => user \in WebUsers
              /\ Serve(b, user) = [browser EXCEPT ![b] =
                                      [browser[b] EXCEPT !.at = "page", !.user = user, !.page = page]]
  <1> DEFINE page == PageOf(browser[b].path, user # NoUser)
  <1>1. browser[b].path \in Paths \cup {"none"} /\ (user # NoUser) \in BOOLEAN
    BY WebFields
  <1>2. /\ page \in Paths \cup {"none", "redirect", "404"}
        /\ page \in Paths \ OpenPages => user # NoUser
    BY <1>1, PageFor
  <1>3. Serve(b, user) = [browser EXCEPT ![b].at = "page", ![b].user = user, ![b].page = page]
    BY DEF Serve
  <1> HIDE DEF page
  <1>4. browser \in [Browsers -> BrowserStates]
    BY WebFields
  <1>5. Serve(b, user) = [browser EXCEPT ![b] =
                             [browser[b] EXCEPT !.at = "page", !.user = user, !.page = page]]
    BY <1>3, <1>4
  <1> QED
    BY <1>2, <1>5

(* A page is served; the browser may have got a cookie with it.            *)
LEMMA ServedInv ==
    ASSUME WebInv, NEW b \in Browsers, NEW user \in WebUsers \cup {NoUser},
           NEW key \in Nat, NEW seen \in Nat,
           browser' = [Serve(b, user) EXCEPT ![b].key = key, ![b].seen = seen],
           web' \in WebStates, OneCookie(web'), \A a \in Browsers : Kept(browser[a], web'),
           key <= web'.keys,
           key # NoKey /\ web'.now <= seen + CookieAge =>
              \E c \in web'.cookies : c.key = key /\ seen <= c.since
    PROVE  WebInv'
  <1>1. PICK page \in Paths \cup {"none", "redirect", "404"} :
           /\ page \in Paths \ OpenPages => user \in WebUsers
           /\ Serve(b, user) = [browser EXCEPT ![b] =
                                   [browser[b] EXCEPT !.at = "page", !.user = user, !.page = page]]
    BY Served
  <1> DEFINE new == [browser[b] EXCEPT !.at = "page", !.user = user, !.page = page,
                                       !.key = key, !.seen = seen]
  <1>2. browser \in [Browsers -> BrowserStates] /\ browser[b] \in BrowserStates
    BY WebFields
  <1>3. browser' = [browser EXCEPT ![b] = new]
    BY <1>1, <1>2 DEF BrowserStates
  <1>4. /\ new \in BrowserStates /\ new.key = key /\ new.seen = seen /\ new.at = "page"
        /\ new.user = user /\ new.page = page
    BY <1>2 DEF BrowserStates
  <1> HIDE DEF new
  <1>5. Known(new)
    BY <1>1, <1>4 DEF Known
  <1>6. Kept(new, web')
    BY <1>4 DEF Kept
  <1> QED
    BY <1>3, <1>4, <1>5, <1>6, BrowserStep

LEMMA ServedOnlyInv ==
    ASSUME WebInv, NEW b \in Browsers, NEW user \in WebUsers \cup {NoUser},
           browser' = Serve(b, user), web' \in WebStates, OneCookie(web'),
           \A a \in Browsers : Kept(browser[a], web')
    PROVE  WebInv'
  <1>1. PICK page \in Paths \cup {"none", "redirect", "404"} :
           /\ page \in Paths \ OpenPages => user \in WebUsers
           /\ Serve(b, user) = [browser EXCEPT ![b] =
                                   [browser[b] EXCEPT !.at = "page", !.user = user, !.page = page]]
    BY Served
  <1> DEFINE new == [browser[b] EXCEPT !.at = "page", !.user = user, !.page = page]
  <1>2. browser \in [Browsers -> BrowserStates] /\ browser[b] \in BrowserStates
    BY WebFields
  <1>3. browser' = [browser EXCEPT ![b] = new]
    BY <1>1
  <1>4. /\ new \in BrowserStates /\ new.key = browser[b].key /\ new.seen = browser[b].seen
        /\ new.at = "page" /\ new.user = user /\ new.page = page
    BY <1>2 DEF BrowserStates
  <1> HIDE DEF new
  <1>5. Known(new)
    BY <1>1, <1>4 DEF Known
  <1>6. Kept(new, web')
    BY <1>4 DEF Kept
  <1> QED
    BY <1>3, <1>4, <1>5, <1>6, BrowserStep

LEMMA AuthorizeHeaderInv == ASSUME WebInv, NEW b \in Browsers, AuthorizeHeader(b) PROVE WebInv'
  <1>1. CASE browser' = Serve(b, NoUser) /\ UNCHANGED web
    <2>1. web' \in WebStates /\ OneCookie(web') /\ \A a \in Browsers : Kept(browser[a], web')
      BY <1>1 DEF WebInv
    <2> QED
      BY <1>1, <2>1, ServedOnlyInv
  <1>2. ASSUME NEW user \in WebUsers, NEW c, c = GetCookie(user), web' = AddCookie(c),
               browser' = [Serve(b, user) EXCEPT ![b].key = c.key, ![b].seen = c.since]
        PROVE  WebInv'
    <2>1. /\ web' \in WebStates /\ OneCookie(web') /\ web'.now = web.now /\ web.keys <= web'.keys
          /\ web.cookies \subseteq web'.cookies /\ c \in web'.cookies
          /\ c.key \in Nat /\ c.key <= web'.keys /\ c.since \in Nat
      BY <1>2, CookieGiven
    <2>2. \A a \in Browsers : Kept(browser[a], web')
      BY <2>1, MoreCookiesKept
    <2>3. \E d \in web'.cookies : d.key = c.key /\ c.since <= d.since
      BY <2>1
    <2> QED
      BY <1>2, <2>1, <2>2, <2>3, ServedInv
  <1>3. \/ browser' = Serve(b, NoUser) /\ UNCHANGED web
        \/ \E user \in WebUsers :
              /\ web' = AddCookie(GetCookie(user))
              /\ browser' = [Serve(b, user) EXCEPT ![b].key = GetCookie(user).key,
                                                   ![b].seen = GetCookie(user).since]
    BY DEF AuthorizeHeader
  <1> QED
    BY <1>1, <1>2, <1>3

LEMMA AuthorizeCookieInv == ASSUME WebInv, NEW b \in Browsers, AuthorizeCookie(b) PROVE WebInv'
  <1>1. /\ browser[b].at = "authorize" /\ UNCHANGED web
        /\ web' \in WebStates /\ OneCookie(web') /\ \A a \in Browsers : Kept(browser[a], web')
    BY DEF AuthorizeCookie, WebInv
  <1>2. CASE WithKey(browser[b].key) = {}
    BY <1>1, <1>2, ServedOnlyInv DEF AuthorizeCookie
  <1>3. CASE WithKey(browser[b].key) # {}
    <2>1. PICK c \in WithKey(browser[b].key) :
             browser' = [browser EXCEPT ![b].at = "update", ![b].user = c.user]
      BY <1>3 DEF AuthorizeCookie
    <2> DEFINE new == [browser[b] EXCEPT !.at = "update", !.user = c.user]
    <2>2. c.user \in WebUsers
      BY WebFields DEF WithKey
    <2>3. browser \in [Browsers -> BrowserStates] /\ browser[b] \in BrowserStates
      BY WebFields
    <2>4. browser' = [browser EXCEPT ![b] = new]
      BY <2>1, <2>3
    <2>5. /\ new \in BrowserStates /\ new.key = browser[b].key /\ new.seen = browser[b].seen
          /\ new.user = c.user
      BY <2>2, <2>3 DEF BrowserStates
    <2> HIDE DEF new
    <2>6. Known(new) /\ Kept(new, web')
      BY <1>1, <2>2, <2>5 DEF Known, Kept
    <2> QED
      BY <1>1, <2>4, <2>5, <2>6, BrowserStep
  <1> QED
    BY <1>2, <1>3

LEMMA AuthorizeUpdateInv == ASSUME WebInv, NEW b \in Browsers, AuthorizeUpdate(b) PROVE WebInv'
  <1> DEFINE key == browser[b].key
  <1>1. /\ key \in Nat /\ key <= web.keys /\ web.now \in Nat /\ browser[b].user \in WebUsers \cup {NoUser}
    BY WebFields DEF Kept
  <1>2. web' = [web EXCEPT !.cookies = UpdateCookie(key)]
    BY DEF AuthorizeUpdate
  <1>3. /\ web' \in WebStates /\ OneCookie(web') /\ web'.now = web.now /\ web'.keys = web.keys
        /\ \A a \in Browsers : Kept(browser[a], web')
        /\ WithKey(key) # {} => \E c \in web'.cookies : c.key = key /\ c.since = web.now
    <2> HIDE DEF key
    <2> QED
      BY <1>1, <1>2, CookieUpdated
  <1>4. CASE WithKey(key) = {}
    <2>1. browser' = Serve(b, browser[b].user)
      BY <1>4 DEF AuthorizeUpdate
    <2> QED
      BY <1>1, <1>3, <2>1, ServedOnlyInv
  <1>5. CASE WithKey(key) # {}
    <2>1. browser' = [Serve(b, browser[b].user) EXCEPT ![b].seen = web.now]
      BY <1>5 DEF AuthorizeUpdate
    <2>2. PICK page \in Paths \cup {"none", "redirect", "404"} :
             /\ page \in Paths \ OpenPages => browser[b].user \in WebUsers
             /\ Serve(b, browser[b].user) =
                   [browser EXCEPT ![b] = [browser[b] EXCEPT !.at = "page", !.user = browser[b].user,
                                                             !.page = page]]
      BY <1>1, Served
    <2> DEFINE new == [browser[b] EXCEPT !.at = "page", !.user = browser[b].user, !.page = page,
                                         !.seen = web.now]
    <2>3. browser \in [Browsers -> BrowserStates] /\ browser[b] \in BrowserStates
      BY WebFields
    <2>4. browser' = [browser EXCEPT ![b] = new]
      BY <2>1, <2>2, <2>3 DEF BrowserStates
    <2>5. /\ new \in BrowserStates /\ new.key = key /\ new.seen = web.now /\ new.at = "page"
          /\ new.user = browser[b].user /\ new.page = page
      BY <1>1, <2>3 DEF BrowserStates
    <2> HIDE DEF new
    <2>6. Known(new)
      BY <2>2, <2>5 DEF Known
    <2>7. \E c \in web'.cookies : c.key = key /\ web.now <= c.since
      BY <1>1, <1>3, <1>5
    <2>8. Kept(new, web')
      BY <1>1, <1>3, <2>5, <2>7 DEF Kept
    <2> QED
      BY <1>3, <2>4, <2>5, <2>6, <2>8, BrowserStep
  <1> QED
    BY <1>4, <1>5

(* The browser waits no more; it may have got a cookie, or have lost it.   *)
LEMMA WebAnsweredInv ==
    ASSUME WebInv, NEW b \in Browsers, NEW key \in Nat, NEW seen \in Nat,
           browser' = [WebAnswered(b) EXCEPT ![b].key = key, ![b].seen = seen],
           web' \in WebStates, OneCookie(web'), \A a \in Browsers : Kept(browser[a], web'),
           key <= web'.keys,
           key # NoKey /\ web'.now <= seen + CookieAge =>
              \E c \in web'.cookies : c.key = key /\ seen <= c.since
    PROVE  WebInv'
  <1> DEFINE new == [browser[b] EXCEPT !.at = "idle", !.path = "none", !.user = NoUser,
                                       !.page = "none", !.key = key, !.seen = seen]
  <1>1. browser \in [Browsers -> BrowserStates] /\ browser[b] \in BrowserStates
    BY WebFields
  <1>2. browser' = [browser EXCEPT ![b] = new]
    BY <1>1 DEF WebAnswered, BrowserStates
  <1>3. /\ new \in BrowserStates /\ new.key = key /\ new.seen = seen /\ new.at = "idle"
        /\ new.page = "none"
    BY <1>1 DEF BrowserStates
  <1> HIDE DEF new
  <1>4. Known(new) /\ Kept(new, web')
    BY <1>3 DEF Known, Kept, Paths
  <1> QED
    BY <1>2, <1>3, <1>4, BrowserStep

LEMMA AnsweredOnlyInv ==
    ASSUME WebInv, NEW b \in Browsers, browser' = WebAnswered(b), UNCHANGED web PROVE WebInv'
  <1> DEFINE new == [browser[b] EXCEPT !.at = "idle", !.path = "none", !.user = NoUser,
                                       !.page = "none"]
  <1>1. browser \in [Browsers -> BrowserStates] /\ browser[b] \in BrowserStates
    BY WebFields
  <1>2. browser' = [browser EXCEPT ![b] = new]
    BY <1>1 DEF WebAnswered
  <1>3. /\ new \in BrowserStates /\ new.key = browser[b].key /\ new.seen = browser[b].seen
        /\ new.at = "idle" /\ new.page = "none"
    BY <1>1 DEF BrowserStates
  <1> HIDE DEF new
  <1>4. web' \in WebStates /\ OneCookie(web') /\ \A a \in Browsers : Kept(browser[a], web')
    BY DEF WebInv
  <1>5. Known(new)
    BY <1>3 DEF Known, Paths
  <1>6. Kept(new, web')
    BY <1>3, <1>4 DEF Kept
  <1> QED
    BY <1>2, <1>3, <1>4, <1>5, <1>6, BrowserStep

LEMMA DoAuthInv == ASSUME WebInv, NEW b \in Browsers, DoAuth(b) PROVE WebInv'
  <1>1. ASSUME NEW user \in WebUsers, NEW c, c = GetCookie(user), web' = AddCookie(c),
               browser' = [WebAnswered(b) EXCEPT ![b].key = c.key, ![b].seen = c.since]
        PROVE  WebInv'
    <2>1. /\ web' \in WebStates /\ OneCookie(web') /\ web'.now = web.now /\ web.keys <= web'.keys
          /\ web.cookies \subseteq web'.cookies /\ c \in web'.cookies
          /\ c.key \in Nat /\ c.key <= web'.keys /\ c.since \in Nat
      BY <1>1, CookieGiven
    <2>2. \A a \in Browsers : Kept(browser[a], web')
      BY <2>1, MoreCookiesKept
    <2>3. \E d \in web'.cookies : d.key = c.key /\ c.since <= d.since
      BY <2>1
    <2> QED
      BY <1>1, <2>1, <2>2, <2>3, WebAnsweredInv
  <1>2. \/ browser' = WebAnswered(b) /\ UNCHANGED web
        \/ \E user \in WebUsers :
              /\ web' = AddCookie(GetCookie(user))
              /\ browser' = [WebAnswered(b) EXCEPT ![b].key = GetCookie(user).key,
                                                   ![b].seen = GetCookie(user).since]
    BY DEF DoAuth
  <1> QED
    BY <1>1, <1>2, AnsweredOnlyInv

LEMMA LogoutInv == ASSUME WebInv, NEW b \in Browsers, Logout(b) PROVE WebInv'
  <1>1. /\ browser[b].at = "page" /\ browser[b].page = "logout"
        /\ web' = [web EXCEPT !.cookies = DeleteCookieForUser(browser[b].user)]
        /\ browser' = [WebAnswered(b) EXCEPT ![b].key = NoKey, ![b].seen = 0]
    BY DEF Logout
  <1>2. browser[b].user \in WebUsers
    BY <1>1, WebFields DEF Known, Paths, OpenPages
  <1>3. web \in WebStates /\ DeleteCookieForUser(browser[b].user) = web.cookies
    BY <1>2, NothingDeleted DEF WebInv
  <1>4. web' = web
    BY <1>1, <1>3 DEF WebStates
  <1>5. web' \in WebStates /\ OneCookie(web') /\ \A a \in Browsers : Kept(browser[a], web')
    BY <1>4 DEF WebInv
  <1>6. NoKey \in Nat /\ 0 \in Nat /\ NoKey <= web'.keys
    BY <1>5 DEF NoKey, WebStates
  <1> QED
    BY <1>1, <1>5, <1>6, WebAnsweredInv

LEMMA WebInvInit == WebInit => WebInv
  <1> SUFFICES ASSUME WebInit PROVE WebInv
    OBVIOUS
  <1>1. PICK admin \in BOOLEAN, archive \in BOOLEAN, commands \in BOOLEAN :
           web = [cookies |-> {}, keys |-> 0, now |-> 0,
                  admin |-> admin, archive |-> archive, rest |-> commands]
    BY DEF WebInit
  <1>2. web \in WebStates /\ web.cookies = {} /\ web.keys = 0
    BY <1>1 DEF WebStates
  <1>3. OneCookie(web)
    BY <1>2 DEF OneCookie
  <1>4. /\ browser \in [Browsers -> BrowserStates]
        /\ \A b \in Browsers : browser[b].key = 0 /\ browser[b].page = "none"
                               /\ browser[b].at = "idle"
    BY DEF WebInit, BrowserStates, NoKey
  <1>5. \A b \in Browsers : Kept(browser[b], web) /\ Known(browser[b])
    BY <1>2, <1>4 DEF Kept, Known, NoKey, Paths
  <1> QED
    BY <1>2, <1>3, <1>4, <1>5 DEF WebInv

(* A key was given once, and what a browser has seen is not later than     *)
(* what the server knows of it.                                            *)
THEOREM WebInvHolds == WebSpec => []WebInv
  <1>1. WebInit => WebInv
    BY WebInvInit
  <1>2. WebInv /\ [WebNext]_webVars => WebInv'
    <2> SUFFICES ASSUME WebInv, [WebNext]_webVars PROVE WebInv'
      OBVIOUS
    <2>1. CASE UNCHANGED webVars
      BY <2>1 DEF webVars, WebInv, OneCookie, Kept, Known
    <2>2. CASE WebTime
      BY <2>2, WebTimeInv
    <2>3. CASE CleanCookies
      BY <2>3, CleanCookiesInv
    <2>4. ASSUME NEW b \in Browsers, Browse(b) PROVE WebInv'
      <3>1. CASE Requests(b)
        BY <3>1, RequestsInv
      <3>2. CASE AuthorizeHeader(b)
        BY <3>2, AuthorizeHeaderInv
      <3>3. CASE AuthorizeCookie(b)
        BY <3>3, AuthorizeCookieInv
      <3>4. CASE AuthorizeUpdate(b)
        BY <3>4, AuthorizeUpdateInv
      <3>5. CASE DoAuth(b)
        BY <3>5, DoAuthInv
      <3>6. CASE Logout(b)
        BY <3>6, LogoutInv
      <3>7. CASE OtherPage(b)
        BY <3>7, AnsweredOnlyInv DEF OtherPage
      <3> QED
        BY <2>4, <3>1, <3>2, <3>3, <3>4, <3>5, <3>6, <3>7 DEF Browse
    <2> QED
      BY <2>1, <2>2, <2>3, <2>4 DEF WebNext
  <1> QED
    BY <1>1, <1>2, PTL DEF WebSpec

(* For any number of browsers and users, and whatever requests overtake    *)
(* each other between two calls of the cookies: a session in use is not    *)
(* lost, a user has one, and pages of users go to users only.              *)
THEOREM SessionsAreKept == WebSpec => []SessionsKept
  <1>1. WebInv => SessionsKept
    <2> SUFFICES ASSUME WebInv PROVE SessionsKept
      OBVIOUS
    <2>1. ASSUME NEW b \in Browsers, browser[b].key # NoKey,
                 web.now <= browser[b].seen + CookieAge
          PROVE  WithKey(browser[b].key) # {}
      BY <2>1, WebFields DEF Kept, WithKey
    <2>2. \A c, d \in web.cookies : c.user = d.user \/ c.key = d.key => c = d
      BY DEF WebInv, OneCookie
    <2>3. \A b \in Browsers : browser[b].page \in Paths \ OpenPages => browser[b].user \in WebUsers
      BY DEF WebInv, Known
    <2> QED
      BY <2>1, <2>2, <2>3 DEF SessionsKept
  <1> QED
    BY <1>1, WebInvHolds, PTL

-----------------------------------------------------------------------------
(***************************************************************************)
(* Statistics: how old is what is reported, for any number of parts that a *)
(* second has, and however late the thread is.                             *)
(*                                                                         *)
(* A slot is used again after five seconds: what is held is older only if  *)
(* the thread was there in no later second of that slot.                   *)
(***************************************************************************)

CountStates == [tick : Int, held : BOOLEAN, wake : Nat, stopped : BOOLEAN, cleared : BOOLEAN,
                skipped : BOOLEAN, woken : Int]

StatTypeOK ==
    /\ now \in Nat
    /\ counting \in CountStates
    /\ counting.tick # Never => counting.tick \in 0 .. now
    /\ counting.woken <= now
    /\ counting.held => counting.tick # Never

\* The thread was here in a later second of the slot: what is held is of another one.
ClearedNow ==
    counting.held /\ Second(counting.woken) = Second(now) /\ Second(now) # Second(counting.tick)
       => Slot(now) # Slot(counting.tick)

\* The slot comes round after five seconds.
ClearedInTime == counting.held /\ ~counting.skipped => Age <= Slots

\* What was cleared too early was so in its own second.
HeldLongEnough ==
    counting.tick # Never /\ ~counting.held => counting.cleared \/ Age >= Slots

StatInv == StatTypeOK /\ ClearedNow /\ ClearedInTime /\ HeldLongEnough

-----------------------------------------------------------------------------
(* Seconds and slots.                                                      *)

LEMMA Divided ==
    ASSUME NEW a \in Int, NEW b \in Nat \ {0}
    PROVE  a \div b \in Int /\ b * (a \div b) <= a /\ a < b * (a \div b) + b
  <1>1. a \div b \in Int
    OBVIOUS
  <1>2. b * (a \div b) <= a
    OBVIOUS
  <1>3. a < b * (a \div b) + b
    OBVIOUS
  <1> QED
    BY <1>1, <1>2, <1>3

LEMMA QuotientsOrdered ==
    ASSUME NEW p \in Int, NEW q \in Int, NEW b \in Nat \ {0}, b * q < b * p + b
    PROVE  q <= p
  OBVIOUS

(* Later ticks are in later seconds, the next tick in this or the next.    *)
LEMMA SecondsPass ==
    ASSUME NEW t \in Int, NEW u \in Int, t <= u
    PROVE  /\ Second(t) \in Int /\ Second(u) \in Int /\ Second(u + 1) \in Int
           /\ Second(t) <= Second(u)
           /\ Second(u + 1) = Second(u) \/ Second(u + 1) = Second(u) + 1
  <1> DEFINE T == Ticks
             p == Second(t)
             q == Second(u)
             r == Second(u + 1)
  <1>1. T \in Nat \ {0} /\ u + 1 \in Int
    BY StatisticsAssumption
  <1>2. p \in Int /\ T * p <= t /\ t < T * p + T
    BY <1>1, Divided DEF Second
  <1>3. q \in Int /\ T * q <= u /\ u < T * q + T
    BY <1>1, Divided DEF Second
  <1>4. r \in Int /\ T * r <= u + 1 /\ u + 1 < T * r + T
    BY <1>1, Divided DEF Second
  <1> HIDE DEF p, q, r, T
  <1>5. T * p < T * q + T /\ T * q < T * r + T
    BY <1>1, <1>2, <1>3, <1>4
  <1>6. p <= q /\ q <= r
    BY <1>1, <1>2, <1>3, <1>4, <1>5, QuotientsOrdered
  <1>7. r <= q + 1
    <2>1. q + 1 \in Int /\ T * (q + 1) = T * q + T
      BY <1>1, <1>3
    <2>2. T * r < T * (q + 1) + T
      BY <1>1, <1>3, <1>4, <2>1
    <2> QED
      BY <1>1, <1>4, <2>1, <2>2, QuotientsOrdered
  <1> QED
    BY <1>2, <1>3, <1>4, <1>6, <1>7 DEF p, q, r

(* Two seconds have one slot when they are whole rounds apart.             *)
LEMMA Rounds ==
    ASSUME NEW a \in Int, NEW b \in Int, b <= a
    PROVE  /\ a % 5 = b % 5 /\ a # b => a - b >= 5
           /\ a - b = 5 => a % 5 = b % 5
  OBVIOUS

LEMMA SlotsApart ==
    ASSUME NEW t \in Int, NEW u \in Int, t <= u
    PROVE  /\ Slot(u) = Slot(t) /\ Second(u) # Second(t) => Second(u) - Second(t) >= Slots
           /\ Second(u) - Second(t) = Slots => Slot(u) = Slot(t)
  <1> DEFINE p == Second(t)
             q == Second(u)
  <1>1. p \in Int /\ q \in Int /\ p <= q
    BY SecondsPass
  <1> HIDE DEF p, q
  <1>2. /\ q % 5 = p % 5 /\ q # p => q - p >= 5
        /\ q - p = 5 => q % 5 = p % 5
    BY <1>1, Rounds
  <1> QED
    BY <1>2 DEF Slot, Slots, p, q

-----------------------------------------------------------------------------
LEMMA StatFields ==
    ASSUME StatInv
    PROVE  /\ now \in Nat /\ counting \in CountStates /\ counting.tick \in Int
           /\ counting.woken \in Int /\ counting.woken <= now
           /\ counting.held \in BOOLEAN /\ counting.skipped \in BOOLEAN
           /\ counting.cleared \in BOOLEAN /\ counting.wake \in Nat
           /\ counting.tick # Never => counting.tick <= now
           /\ counting.held => counting.tick # Never
  BY DEF StatInv, StatTypeOK, CountStates

LEMMA PassesInv == ASSUME StatInv, Passes PROVE StatInv'
  <1> DEFINE skipped == \/ counting.skipped
                        \/ /\ counting.held /\ Slot(now) = Slot(counting.tick)
                           /\ Second(now) # Second(counting.tick)
                           /\ Second(now + 1) # Second(now) /\ Second(counting.woken) # Second(now)
  <1>1. now' = now + 1 /\ counting' = [counting EXCEPT !.skipped = skipped]
    BY DEF Passes
  <1>2. /\ now \in Nat /\ counting \in CountStates /\ counting.tick \in Int
        /\ counting.woken \in Int /\ counting.woken <= now
        /\ counting.tick # Never => counting.tick <= now
        /\ counting.held => counting.tick # Never
    BY StatFields
  <1>3. skipped \in BOOLEAN
    BY <1>2
  <1> HIDE DEF skipped
  <1>4. /\ counting' \in CountStates /\ counting'.tick = counting.tick
        /\ counting'.held = counting.held /\ counting'.cleared = counting.cleared
        /\ counting'.woken = counting.woken /\ counting'.skipped = skipped
    BY <1>1, <1>2, <1>3 DEF CountStates
  <1>5. StatTypeOK'
    BY <1>1, <1>2, <1>4 DEF StatInv, StatTypeOK
  <1> DEFINE s == Second(counting.tick)
             w == Second(counting.woken)
             n == Second(now)
             m == Second(now + 1)
  <1>6. /\ w \in Int /\ n \in Int /\ m \in Int /\ w <= n /\ (m = n \/ m = n + 1)
    <2> DEFINE wk == counting.woken
    <2>1. wk \in Int /\ now \in Int /\ wk <= now
      BY <1>2
    <2> HIDE DEF wk
    <2>2. /\ Second(wk) \in Int /\ Second(now) \in Int /\ Second(now + 1) \in Int
          /\ Second(wk) <= Second(now)
          /\ Second(now + 1) = Second(now) \/ Second(now + 1) = Second(now) + 1
      BY <2>1, SecondsPass
    <2> QED
      BY ONLY <2>2 DEF wk
  <1>7. counting.tick # Never => s \in Int /\ s <= n
    <2> SUFFICES ASSUME counting.tick # Never PROVE s \in Int /\ s <= n
      OBVIOUS
    <2> DEFINE tk == counting.tick
    <2>1. tk \in Int /\ now \in Int /\ tk <= now
      BY <1>2
    <2> HIDE DEF tk
    <2>2. Second(tk) \in Int /\ Second(tk) <= Second(now)
      BY <2>1, SecondsPass
    <2> QED
      BY ONLY <2>2 DEF tk
  <1>8. m = n => Slot(now + 1) = Slot(now)
    BY DEF Slot
  <1>9. ClearedNow'
    <2>1. counting.held /\ w = n /\ n # s => Slot(now) # Slot(counting.tick)
      BY DEF StatInv, ClearedNow
    <2>2. w = m => m = n
      <3> HIDE DEF w, n, m
      <3> QED
        BY <1>6
    <2>3. counting.held /\ w = m /\ m # s => Slot(now + 1) # Slot(counting.tick)
      BY <1>8, <2>1, <2>2
    <2> QED
      BY <1>1, <1>4, <2>3 DEF ClearedNow
  <1>10. ClearedInTime'
    <2> SUFFICES ASSUME counting.held, ~skipped PROVE m - s <= 5
      BY <1>1, <1>4 DEF ClearedInTime, Age, Slots
    <2>1. s \in Int /\ s <= n /\ ~counting.skipped
      BY <1>2, <1>7 DEF skipped
    <2>2. n - s <= 5
      BY <2>1 DEF StatInv, ClearedInTime, Age, Slots
    <2>3. CASE m = n
      BY <2>2, <2>3
    <2>4. CASE m # n /\ n - s = 5
      <3>1. n # s
        <4> HIDE DEF n, s
        <4> QED
          BY <1>6, <2>1, <2>4
      <3>2. Slot(now) = Slot(counting.tick)
        BY <1>2, <2>4, SlotsApart DEF Slots
      <3>3. w # n
        BY <3>1, <3>2 DEF StatInv, ClearedNow
      <3>4. skipped
        BY <2>4, <3>1, <3>2, <3>3 DEF skipped
      <3> QED
        BY <3>4
    <2>5. CASE m # n /\ n - s # 5
      <3> HIDE DEF n, m, s
      <3> QED
        BY <1>6, <2>1, <2>2, <2>5
    <2> QED
      BY <2>3, <2>4, <2>5
  <1>11. HeldLongEnough'
    <2> SUFFICES ASSUME counting.tick # Never, ~counting.held, ~counting.cleared PROVE m - s >= 5
      BY <1>1, <1>4 DEF HeldLongEnough, Age, Slots
    <2>1. n - s >= 5
      BY DEF StatInv, HeldLongEnough, Age, Slots
    <2>2. s \in Int
      BY <1>7
    <2> HIDE DEF n, m, s
    <2> QED
      BY <1>6, <2>1, <2>2
  <1> QED
    BY <1>5, <1>9, <1>10, <1>11 DEF StatInv

LEMMA TrackInv == ASSUME StatInv, Track PROVE StatInv'
  <1>1. counting.tick = Never /\ UNCHANGED now /\ counting' = [counting EXCEPT !.tick = now, !.held = TRUE]
    BY DEF Track
  <1>2. now \in Nat /\ now \in Int /\ counting \in CountStates /\ counting.woken <= now /\ now # Never
    BY StatFields DEF Never
  <1>3. /\ counting' \in CountStates /\ counting'.tick = now /\ counting'.held
        /\ counting'.woken = counting.woken
    BY <1>1, <1>2 DEF CountStates
  <1>4. StatTypeOK'
    BY <1>1, <1>2, <1>3 DEF StatTypeOK
  <1>5. Second(now) \in Int /\ Second(now) - Second(now) = 0
    BY <1>2, SecondsPass
  <1>6. ClearedNow'
    BY <1>1, <1>3 DEF ClearedNow
  <1>7. ClearedInTime'
    BY <1>1, <1>3, <1>5 DEF ClearedInTime, Age, Slots
  <1>8. HeldLongEnough'
    BY <1>3 DEF HeldLongEnough
  <1> QED
    BY <1>4, <1>6, <1>7, <1>8 DEF StatInv

LEMMA ClearInv == ASSUME StatInv, Clear PROVE StatInv'
  <1> DEFINE wake == now + Ticks
             held == counting.held /\ Slot(now) # Slot(counting.tick)
             cleared == counting.cleared
                        \/ (counting.tick # Never /\ Second(counting.tick) = Second(now))
  <1>1. UNCHANGED now /\ counting' = [counting EXCEPT !.wake = wake, !.woken = now, !.held = held,
                                                      !.cleared = cleared]
    BY DEF Clear
  <1>2. /\ now \in Nat /\ counting \in CountStates /\ counting.tick \in Int
        /\ counting.held \in BOOLEAN /\ counting.cleared \in BOOLEAN
        /\ counting.tick # Never => counting.tick <= now
        /\ counting.held => counting.tick # Never
    BY StatFields
  <1>3. wake \in Nat /\ held \in BOOLEAN /\ cleared \in BOOLEAN /\ now \in Int /\ now <= now
    BY <1>2, StatisticsAssumption
  <1> HIDE DEF wake, held, cleared
  <1>4. /\ counting' \in CountStates /\ counting'.tick = counting.tick /\ counting'.held = held
        /\ counting'.cleared = cleared /\ counting'.woken = now
        /\ counting'.skipped = counting.skipped
    BY <1>1, <1>2, <1>3 DEF CountStates
  <1>5. StatTypeOK'
    BY <1>1, <1>2, <1>3, <1>4 DEF StatInv, StatTypeOK, held
  <1>6. ClearedNow'
    BY <1>1, <1>4 DEF ClearedNow, held
  <1>7. ClearedInTime'
    BY <1>1, <1>4 DEF ClearedInTime, Age, held, StatInv
  <1>8. HeldLongEnough'
    <2> SUFFICES ASSUME counting.tick # Never, ~held, ~cleared PROVE Age >= Slots
      BY <1>1, <1>4 DEF HeldLongEnough, Age
    <2>1. CASE ~counting.held
      BY <2>1 DEF StatInv, HeldLongEnough, cleared
    <2>2. CASE counting.held
      <3>1. Slot(now) = Slot(counting.tick) /\ Second(now) # Second(counting.tick)
        BY <2>2 DEF held, cleared
      <3> QED
        BY <1>2, <1>3, <3>1, SlotsApart DEF Age
    <2> QED
      BY <2>1, <2>2
  <1> QED
    BY <1>5, <1>6, <1>7, <1>8 DEF StatInv

LEMMA StatStopInv == ASSUME StatInv, StatStop PROVE StatInv'
  <1>1. UNCHANGED now /\ counting' = [counting EXCEPT !.stopped = TRUE] /\ counting \in CountStates
    BY StatFields DEF StatStop
  <1>2. /\ counting' \in CountStates /\ counting'.tick = counting.tick
        /\ counting'.held = counting.held /\ counting'.cleared = counting.cleared
        /\ counting'.woken = counting.woken /\ counting'.skipped = counting.skipped
    BY <1>1 DEF CountStates
  <1> QED
    BY <1>1, <1>2 DEF StatInv, StatTypeOK, ClearedNow, ClearedInTime, HeldLongEnough, Age

LEMMA StatInvInit == StatInit => StatInv
  <1> SUFFICES ASSUME StatInit PROVE StatInv
    OBVIOUS
  <1>1. /\ now = 0 /\ Ticks \in Nat
        /\ counting = [tick |-> Never, held |-> FALSE, wake |-> Ticks, stopped |-> FALSE,
                       cleared |-> FALSE, skipped |-> FALSE, woken |-> Never]
    BY StatisticsAssumption DEF StatInit
  <1>2. counting \in CountStates
    BY <1>1 DEF CountStates, Never
  <1>3. counting.tick = Never /\ ~counting.held /\ counting.woken = Never
    BY <1>1
  <1>4. StatTypeOK
    BY <1>1, <1>2, <1>3 DEF StatTypeOK, Never
  <1> QED
    BY <1>3, <1>4 DEF StatInv, ClearedNow, ClearedInTime, HeldLongEnough

(* However many parts a second has, and however late the thread is: what   *)
(* is reported was counted in one of the last four seconds unless the      *)
(* thread was not there in a second of the slot, and what was counted      *)
(* there is reported unless it was cleared in its own second.              *)
THEOREM StatsSoundHolds == StatSpec => []StatsSound
  <1>1. StatInit => StatInv
    BY StatInvInit
  <1>2. StatInv /\ [StatNext]_statVars => StatInv'
    <2> SUFFICES ASSUME StatInv, [StatNext]_statVars PROVE StatInv'
      OBVIOUS
    <2>1. CASE UNCHANGED statVars
      BY <2>1 DEF statVars, StatInv, StatTypeOK, ClearedNow, ClearedInTime, HeldLongEnough, Age
    <2> QED
      BY <2>1, PassesInv, TrackInv, ClearInv, StatStopInv DEF StatNext
  <1>3. StatInv => StatsSound
    <2> SUFFICES ASSUME StatInv, counting.tick # Never
                 PROVE  /\ Reported => Age \in 1 .. Slots - 1 \/ counting.skipped
                        /\ Age \in 1 .. Slots - 1 /\ ~counting.cleared => Reported
      BY DEF StatsSound
    <2> DEFINE s == Second(counting.tick)
               n == Second(now)
    <2>1. /\ now \in Int /\ counting.tick \in Int /\ counting.tick <= now
          /\ counting.held \in BOOLEAN /\ s \in Int /\ n \in Int /\ s <= n
      <3> DEFINE tk == counting.tick
      <3>1. tk \in Int /\ now \in Int /\ tk <= now
        BY StatFields
      <3> HIDE DEF tk
      <3>2. Second(tk) \in Int /\ Second(now) \in Int /\ Second(tk) <= Second(now)
        BY <3>1, SecondsPass
      <3>3. counting.held \in BOOLEAN
        BY StatFields
      <3> QED
        BY ONLY <3>1, <3>2, <3>3 DEF tk
    <2>2. /\ Slot(now) = Slot(counting.tick) /\ n # s => n - s >= 5
          /\ n - s = 5 => Slot(now) = Slot(counting.tick)
      BY <2>1, SlotsApart DEF Slots
    <2>3. n = s => Slot(now) = Slot(counting.tick)
      BY DEF Slot
    <2>4. counting.held /\ ~counting.skipped => n - s <= 5
      BY DEF StatInv, ClearedInTime, Age, Slots
    <2>5. ~counting.held => counting.cleared \/ n - s >= 5
      BY DEF StatInv, HeldLongEnough, Age, Slots
    <2>6. Age = n - s /\ (Reported <=> counting.held /\ Slot(now) # Slot(counting.tick))
      BY DEF Age, Reported
    <2> HIDE DEF n, s
    <2>7. ASSUME counting.held, Slot(now) # Slot(counting.tick), ~counting.skipped
          PROVE  n - s \in 1 .. 4
      BY <2>1, <2>2, <2>3, <2>4, <2>7
    <2>8. ASSUME n - s \in 1 .. 4, ~counting.cleared
          PROVE  counting.held /\ Slot(now) # Slot(counting.tick)
      BY <2>1, <2>2, <2>5, <2>8
    <2>9. 1 .. Slots - 1 = 1 .. 4
      BY DEF Slots
    <2> QED
      BY <2>6, <2>7, <2>8, <2>9
  <1> QED
    BY <1>1, <1>2, <1>3, PTL DEF StatSpec

-----------------------------------------------------------------------------
(***************************************************************************)
(* RestControls: what is set and shown of a camera, for any kinds of       *)
(* sources, any range of a control, and whatever is asked for.             *)
(*                                                                         *)
(* What is shown is what was set needs that nothing but a command sets a   *)
(* control, and what becomes of a value that is scaled there and back.     *)
(***************************************************************************)

CameraStates ==
    [kind : ControlKinds, alive : BOOLEAN, has : BOOLEAN, hw : Int, set : Nat, known : BOOLEAN,
     moves : BOOLEAN, pan : Directions \cup {0}, tilt : Directions \cup {0}]
Commands ==
    [at : {"idle", "set", "get", "reset", "replied", "shown", "refused", "failed", "pan", "tilt",
           "turned"},
     value : ControlValues \cup Directions \cup {0}, ok : BOOLEAN, result : Int,
     old : Directions \cup {0}, ended : BOOLEAN, moved : BOOLEAN, freed : BOOLEAN]
Trackers == [at : {"idle", "pan", "tilt"}, pan : Directions \cup {0}, tilt : Directions \cup {0}]

RestTypeOK ==
    /\ camera \in CameraStates /\ rest \in Commands /\ tracker \in Trackers
    /\ rest.at = "set" => rest.value \in ControlValues
    /\ rest.at = "pan" => rest.value \in Directions

\* Controls that are computed are there from the start; else only a v4l camera has any.
OwnControls ==
    /\ camera.kind = "software" => camera.alive /\ camera.has
    /\ camera.kind = "none" => ~camera.alive /\ ~camera.known

\* The camera has what was asked for, as far as it can have that.
SetInCamera ==
    camera.known => camera.hw = IF camera.kind = "software" THEN camera.set
                                ELSE Unscaled(camera.set)

\* What is shown is what the camera has: no other command can set it meanwhile.
ShownOfCamera == rest.at = "shown" => rest.result = ShownValue(camera.hw)

\* A command that found controls, which are gone: the source ended after that.
EndedSince ==
    /\ rest.at \in {"set", "get", "reset"} /\ ~camera.alive => rest.ended
    /\ rest.freed => rest.at = "failed" /\ rest.ended

\* How far a command that turns the camera is.
Turned ==
    /\ rest.at = "tilt" /\ ~rest.moved => camera.pan = rest.value
    /\ rest.at = "turned" /\ ~rest.moved => camera.pan = rest.value /\ camera.tilt = rest.old

RestInv == RestTypeOK /\ OwnControls /\ SetInCamera /\ ShownOfCamera /\ EndedSince /\ Turned
-----------------------------------------------------------------------------
(* What is asked for, what the camera makes of it, and what is shown.      *)

LEMMA RangeIsWide == RangeMin \in Int /\ RangeMax \in Int /\ RangeMax - RangeMin \in Nat \ {0}
  BY RestAssumption

LEMMA ScalesAreIntegers ==
    ASSUME NEW v \in Int
    PROVE  Unscaled(v) \in Int /\ Scaled(v) \in Int
  <1> DEFINE R == RangeMax - RangeMin
             a == v * R
             b == (v - RangeMin) * Full
  <1>1. RangeMin \in Int /\ R \in Nat \ {0}
    BY RangeIsWide
  <1>2. Full \in Nat \ {0}
    BY DEF Full
  <1>3. a \in Int /\ b \in Int
    BY <1>1, <1>2
  <1>4. Unscaled(v) = (a \div Full) + RangeMin /\ Scaled(v) = b \div R
    BY DEF Unscaled, Scaled
  <1> HIDE DEF a, b, R
  <1>5. a \div Full \in Int /\ b \div R \in Int
    BY <1>1, <1>2, <1>3, Divided
  <1> QED
    BY <1>1, <1>4, <1>5

(* A value that is scaled to the range of the camera and back is rounded   *)
(* down twice, to a step of the camera and to one of the interface.        *)
LEMMA ThereAndBack ==
    ASSUME NEW v \in Int
    PROVE  /\ Scaled(Unscaled(v)) <= v
           /\ (v - Scaled(Unscaled(v))) * (RangeMax - RangeMin) < Full + RangeMax - RangeMin
  <1> DEFINE R == RangeMax - RangeMin
             F == Full
             a == v * R
             q == a \div F
             b == q * F
             r == b \div R
  <1>1. R \in Nat \ {0} /\ F \in Nat \ {0} /\ RangeMin \in Int /\ RangeMax \in Int
    BY RangeIsWide DEF Full
  <1>2. a \in Int
    BY <1>1
  <1>3. q \in Int /\ F * q <= a /\ a < F * q + F
    <2> HIDE DEF a, F
    <2> QED
      BY <1>1, <1>2, Divided
  <1>4. b \in Int /\ b = F * q
    <2> HIDE DEF q, F
    <2> QED
      BY <1>1, <1>3
  <1>5. r \in Int /\ R * r <= b /\ b < R * r + R
    <2> HIDE DEF b, R
    <2> QED
      BY <1>1, <1>4, Divided
  <1>6. Scaled(Unscaled(v)) = r
    <2>1. Unscaled(v) = q + RangeMin
      BY DEF Unscaled
    <2> HIDE DEF q
    <2> DEFINE x == q + RangeMin
    <2>2. x - RangeMin = q
      BY <1>1, <1>3
    <2> HIDE DEF x
    <2>3. Scaled(x) = ((x - RangeMin) * Full) \div (RangeMax - RangeMin)
      BY DEF Scaled
    <2>4. Scaled(x) = (q * Full) \div (RangeMax - RangeMin)
      BY ONLY <2>2, <2>3
    <2> QED
      BY <2>1, <2>4 DEF x
  <1>7. a = R * v
    BY <1>1
  <1> HIDE DEF R, F, a, q, b, r
  <1>8. r <= v
    <2>1. R * r < R * v + R
      BY <1>1, <1>2, <1>3, <1>4, <1>5, <1>7
    <2> QED
      BY <1>1, <1>5, <2>1, QuotientsOrdered
  <1>9. (v - r) * R < F + R
    <2>1. (v - r) * R = R * v - R * r /\ R * v \in Int /\ R * r \in Int
      BY <1>1, <1>5
    <2> QED
      BY <1>1, <1>2, <1>3, <1>4, <1>5, <1>7, <2>1
  <1>10. F + R = Full + RangeMax - RangeMin
    BY <1>1 DEF F, R
  <1> QED
    BY <1>6, <1>8, <1>9, <1>10 DEF R

-----------------------------------------------------------------------------
(* The controls and the camera, for any kinds, values and range.           *)

LEMMA RestParts ==
    ASSUME RestTypeOK
    PROVE  /\ camera.kind \in ControlKinds /\ camera.alive \in BOOLEAN /\ camera.has \in BOOLEAN
           /\ camera.hw \in Int /\ camera.set \in Nat /\ camera.known \in BOOLEAN
           /\ camera.moves \in BOOLEAN
           /\ camera.pan \in Directions \cup {0} /\ camera.tilt \in Directions \cup {0}
           /\ rest.value \in ControlValues \cup Directions \cup {0} /\ rest.result \in Int
           /\ rest.ended \in BOOLEAN /\ rest.moved \in BOOLEAN /\ rest.freed \in BOOLEAN
           /\ rest.ok \in BOOLEAN /\ rest.old \in Directions \cup {0}
           /\ tracker.pan \in Directions \cup {0} /\ tracker.tilt \in Directions \cup {0}
  BY DEF RestTypeOK, CameraStates, Commands, Trackers

LEMMA RestInvInit == RestInit => RestInv
  <1> SUFFICES ASSUME RestInit PROVE RestInv
    OBVIOUS
  <1> USE DEF RestInit
  <1>1. RestTypeOK
    <2>1. Default \in Nat /\ RangeMin \in Int
      BY RestAssumption DEF Default
    <2> QED
      BY <2>1 DEF RestTypeOK, CameraStates, Commands, Trackers, NoCommand
  <1>2. OwnControls /\ SetInCamera
    <2>1. PICK kind \in ControlKinds, has \in BOOLEAN, moves \in BOOLEAN :
             camera = [kind |-> kind, alive |-> kind = "software",
                       has |-> has \/ kind = "software",
                       hw |-> IF kind = "software" THEN Default ELSE RangeMin, set |-> Default,
                       known |-> kind = "software", moves |-> moves, pan |-> 0, tilt |-> 0]
      OBVIOUS
    <2>2. /\ camera.kind = kind /\ camera.alive = (kind = "software")
          /\ camera.has = (has \/ kind = "software") /\ camera.known = (kind = "software")
          /\ camera.hw = IF kind = "software" THEN Default ELSE RangeMin
          /\ camera.set = Default
      BY ONLY <2>1
    <2> QED
      BY ONLY <2>2 DEF OwnControls, SetInCamera
  <1>3. ShownOfCamera /\ EndedSince /\ Turned
    BY DEF ShownOfCamera, EndedSince, Turned, NoCommand
  <1> QED
    BY <1>1, <1>2, <1>3 DEF RestInv

\* A step of the source, of the trigger, or of a command that leaves the camera alone.
LEMMA CameraLeftAlone ==
    ASSUME RestInv, \/ Controls \/ Refused \/ Dangling \/ Getting \/ RestAnswered
    PROVE  RestInv'
  <1>1. RestTypeOK
    BY DEF RestInv
  <1> USE RestParts
  <1>2. camera' = camera /\ tracker' = tracker
    BY DEF Controls, Refused, Dangling, Getting, RestAnswered
  <1>3. RestTypeOK'
    <2>1. CASE Controls
      <3>1. PICK what \in {"set", "get", "reset"}, v \in ControlValues : RestBegin(what, v)
        BY <2>1 DEF Controls
      <3>2. rest' = [NoCommand EXCEPT !.at = what, !.value = v]
        BY <3>1 DEF RestBegin
      <3>3. rest' = [at |-> what, value |-> v, ok |-> FALSE, result |-> 0, old |-> 0,
                     ended |-> FALSE, moved |-> FALSE, freed |-> FALSE]
        BY ONLY <3>2 DEF NoCommand
      <3>4. v \in ControlValues \cup Directions \cup {0} /\ 0 \in Directions \cup {0} /\ 0 \in Int
        OBVIOUS
      <3>5. rest' \in Commands
        BY <3>3, <3>4 DEF Commands
      <3>6. rest'.at = what /\ rest'.value = v /\ what # "pan"
        BY <3>3
      <3> QED
        BY <1>1, <1>2, <3>5, <3>6 DEF RestTypeOK
    <2>2. CASE Refused \/ Dangling
      BY <1>1, <1>2, <2>2 DEF RestTypeOK, Commands, Refused, Dangling, Reply
    <2>3. CASE Getting
      <3>1. ShownValue(camera.hw) \in Int
        BY <1>1, ScalesAreIntegers DEF ShownValue
      <3> QED
        BY <1>1, <1>2, <2>3, <3>1 DEF RestTypeOK, Commands, Getting
    <2>4. CASE RestAnswered
      BY <1>1, <1>2, <2>4 DEF RestTypeOK, Commands, RestAnswered, NoCommand
    <2> QED
      BY <2>1, <2>2, <2>3, <2>4
  <1>4. OwnControls' /\ SetInCamera'
    BY <1>2 DEF RestInv, OwnControls, SetInCamera
  <1>5. ShownOfCamera' /\ EndedSince' /\ Turned'
    <2>1. CASE Controls
      <3>1. PICK what \in {"set", "get", "reset"}, v \in ControlValues : RestBegin(what, v)
        BY <2>1 DEF Controls
      <3>2. rest'.at \in {"set", "get", "reset"} /\ rest'.freed = FALSE /\ camera.alive
        BY <2>1, <3>1 DEF Controls, RestBegin, NoCommand
      <3> QED
        BY <1>2, <3>2 DEF ShownOfCamera, EndedSince, Turned
    <2>2. CASE Refused
      <3>1. rest.at = "idle" /\ rest'.at = "refused" /\ rest'.freed = rest.freed
        BY <1>1, <2>2 DEF RestTypeOK, Commands, Refused, Reply
      <3> QED
        BY <1>2, <3>1 DEF RestInv, ShownOfCamera, EndedSince, Turned
    <2>3. CASE Dangling
      <3>1. rest'.at = "failed" /\ rest'.ended = rest.ended /\ rest.ended
        BY <1>1, <2>3 DEF RestTypeOK, Commands, Dangling, RestInv, EndedSince
      <3> QED
        BY <1>2, <3>1 DEF ShownOfCamera, EndedSince, Turned
    <2>4. CASE Getting
      <3>1. /\ rest'.at = "shown" /\ rest'.result = ShownValue(camera.hw)
            /\ rest'.freed = rest.freed /\ rest.at = "get"
        BY <1>1, <2>4 DEF RestTypeOK, Commands, Getting
      <3> QED
        BY <1>2, <3>1 DEF RestInv, ShownOfCamera, EndedSince, Turned, ShownValue
    <2>5. CASE RestAnswered
      <3>1. rest'.at = "idle" /\ rest'.freed = FALSE
        BY <2>5 DEF RestAnswered, NoCommand
      <3> QED
        BY <3>1 DEF ShownOfCamera, EndedSince, Turned
    <2> QED
      BY <2>1, <2>2, <2>3, <2>4, <2>5
  <1> QED
    BY <1>3, <1>4, <1>5 DEF RestInv

LEMMA SourceInv == ASSUME RestInv, SourceStarts \/ SourceEnds PROVE RestInv'
  <1>1. RestTypeOK
    BY DEF RestInv
  <1> USE RestParts
  <1>2. /\ camera'.kind = camera.kind /\ camera'.has = camera.has /\ camera'.hw = camera.hw
        /\ camera'.set = camera.set /\ camera'.known = camera.known
        /\ camera'.pan = camera.pan /\ camera'.tilt = camera.tilt /\ camera.kind = "v4l"
    BY <1>1 DEF RestTypeOK, CameraStates, SourceStarts, SourceEnds
  <1>3. /\ rest'.at = rest.at /\ rest'.value = rest.value /\ rest'.old = rest.old
        /\ rest'.moved = rest.moved /\ rest'.freed = rest.freed /\ rest'.result = rest.result
    <2>1. rest' = rest \/ rest' = [rest EXCEPT !.ended = rest.at # "idle"]
      BY DEF SourceStarts, SourceEnds
    <2>2. rest \in Commands
      BY <1>1 DEF RestTypeOK
    <2>3. CASE rest' = rest
      BY ONLY <2>3
    <2>4. CASE rest' = [rest EXCEPT !.ended = rest.at # "idle"]
      BY ONLY <2>2, <2>4 DEF Commands
    <2> QED
      BY <2>1, <2>3, <2>4
  <1>4. RestTypeOK'
    <2>1. camera' \in CameraStates /\ tracker' \in Trackers
      BY <1>1 DEF RestTypeOK, CameraStates, SourceStarts, SourceEnds
    <2>2. rest' \in Commands
      BY <1>1 DEF RestTypeOK, Commands, SourceStarts, SourceEnds
    <2> QED
      BY <1>1, <1>3, <2>1, <2>2 DEF RestTypeOK
  <1>5. OwnControls' /\ SetInCamera' /\ ShownOfCamera' /\ Turned'
    BY <1>2, <1>3
    DEF RestInv, OwnControls, SetInCamera, ShownOfCamera, ShownValue, Turned
  <1>6. EndedSince'
    <2>1. CASE SourceStarts
      <3>1. rest' = rest /\ camera'.alive
        BY <1>1, <2>1 DEF SourceStarts, RestTypeOK, CameraStates
      <3> QED
        BY <3>1 DEF RestInv, EndedSince
    <2>2. CASE SourceEnds
      <3>1. rest'.ended = (rest.at # "idle")
        BY <1>1, <2>2 DEF SourceEnds, RestTypeOK, Commands
      <3> QED
        BY <1>3, <3>1 DEF RestInv, EndedSince
    <2> QED
      BY <2>1, <2>2
  <1> QED
    BY <1>4, <1>5, <1>6 DEF RestInv

LEMMA TrackerInv == ASSUME RestInv, TrackMotion \/ TrackPan \/ TrackTilt PROVE RestInv'
  <1>1. RestTypeOK
    BY DEF RestInv
  <1> USE RestParts
  <1>2. CASE TrackMotion
    <2>1. camera' = camera /\ rest' = rest
      BY <1>2 DEF TrackMotion
    <2>2. PICK p \in Directions, t \in Directions : tracker' = [at |-> "pan", pan |-> p, tilt |-> t]
      BY <1>2 DEF TrackMotion
    <2>3. RestTypeOK'
      BY <1>1, <2>1, <2>2 DEF RestTypeOK, Trackers
    <2> QED
      BY <2>1, <2>3
      DEF RestInv, OwnControls, SetInCamera, ShownOfCamera, ShownValue, EndedSince, Turned
  <1>3. CASE TrackPan \/ TrackTilt
    <2>1. /\ camera' = [camera EXCEPT !.pan = tracker.pan] \/ camera' = [camera EXCEPT !.tilt = tracker.tilt]
          /\ rest' = [rest EXCEPT !.moved = rest.at # "idle"]
          /\ \/ tracker' = [tracker EXCEPT !.at = "tilt"]
             \/ tracker' = [at |-> "idle", pan |-> 0, tilt |-> 0]
      BY <1>3 DEF TrackPan, TrackTilt
    <2>2. camera \in CameraStates /\ rest \in Commands /\ tracker \in Trackers
      BY <1>1 DEF RestTypeOK
    <2>3. camera' \in CameraStates
      BY <2>1, <2>2 DEF CameraStates, Trackers
    <2>4. rest' \in Commands
      BY <2>1, <2>2 DEF Commands
    <2>5. tracker' \in Trackers
      BY <2>1, <2>2 DEF Trackers
    <2>6. /\ camera'.kind = camera.kind /\ camera'.has = camera.has /\ camera'.hw = camera.hw
          /\ camera'.set = camera.set /\ camera'.known = camera.known
          /\ camera'.alive = camera.alive
      BY ONLY <2>1, <2>2 DEF CameraStates
    <2>7. /\ rest'.at = rest.at /\ rest'.result = rest.result /\ rest'.freed = rest.freed
          /\ rest'.ended = rest.ended /\ rest'.moved = (rest.at # "idle")
          /\ rest'.value = rest.value
      BY ONLY <2>1, <2>2 DEF Commands
    <2>8. OwnControls' /\ SetInCamera' /\ ShownOfCamera' /\ EndedSince' /\ Turned'
      BY <2>6, <2>7
      DEF RestInv, OwnControls, SetInCamera, ShownOfCamera, ShownValue, EndedSince, Turned
    <2> QED
      BY <2>3, <2>4, <2>5, <2>7, <2>8 DEF RestInv, RestTypeOK
  <1> QED
    BY <1>2, <1>3

LEMMA SettingInv == ASSUME RestInv, Setting \/ Resetting PROVE RestInv'
  <1>1. RestTypeOK
    BY DEF RestInv
  <1>2. camera \in CameraStates /\ rest \in Commands /\ rest.at \in {"set", "reset"} /\ camera.alive
    BY <1>1 DEF RestTypeOK, Setting, Resetting
  <1>3. rest' = [rest EXCEPT !.at = "replied", !.ok = TRUE] /\ tracker' = tracker
    BY DEF Setting, Resetting, Reply
  <1>4. /\ rest' \in Commands /\ rest'.at = "replied" /\ rest'.freed = rest.freed
        /\ rest'.ended = rest.ended
    BY ONLY <1>2, <1>3 DEF Commands
  <1>5. ShownOfCamera' /\ EndedSince' /\ Turned'
    BY <1>2, <1>4 DEF RestInv, ShownOfCamera, EndedSince, Turned
  <1>7. camera \in CameraStates
    BY <1>2
  <1>6. camera' \in CameraStates /\ OwnControls' /\ SetInCamera'
    <2>1. CASE camera' = camera
      BY <1>2, <2>1 DEF RestInv, OwnControls, SetInCamera
    <2>2. CASE Setting /\ camera' # camera
      <3>1. PICK hw \in Takes(rest.value) :
               camera' = [camera EXCEPT !.hw = hw, !.set = rest.value, !.known = TRUE]
        <4> DEFINE hw == CHOOSE h \in Takes(rest.value) : TRUE
        <4>1. camera' = [camera EXCEPT !.hw = hw, !.set = rest.value, !.known = TRUE]
              /\ Takes(rest.value) # {}
          BY <2>2 DEF Setting
        <4>2. hw \in Takes(rest.value)
          BY <4>1
        <4> QED
          BY <4>1, <4>2
      <3>2. rest.value \in Nat /\ camera.kind \in ControlKinds
        BY <1>1, <1>2, <2>2, RestAssumption DEF Setting, RestTypeOK, CameraStates
      <3>3. hw \in Int /\ hw = IF camera.kind = "software" THEN rest.value
                               ELSE Unscaled(rest.value)
        BY <3>1, <3>2, ScalesAreIntegers DEF Takes
      <3>4. /\ camera' \in CameraStates /\ camera'.kind = camera.kind /\ camera'.has = camera.has
            /\ camera'.hw = hw /\ camera'.set = rest.value /\ camera'.alive = camera.alive
        BY ONLY <1>7, <3>1, <3>2, <3>3 DEF CameraStates
      <3> QED
        BY <1>2, <3>3, <3>4 DEF RestInv, OwnControls, SetInCamera
    <2>3. CASE Resetting /\ camera' # camera
      <3>1. \/ /\ camera.kind = "software"
               /\ camera' = [camera EXCEPT !.hw = Default, !.set = Default]
            \/ /\ camera.kind # "software"
               /\ camera' = [camera EXCEPT !.hw = RangeMin, !.known = FALSE]
        BY <2>3 DEF Resetting
      <3>2. Default \in Nat /\ RangeMin \in Int
        BY RestAssumption DEF Default
      <3>3. CASE camera.kind = "software"
        <4> DEFINE d == Default
        <4>1. d \in Nat /\ camera' = [camera EXCEPT !.hw = d, !.set = d]
          BY <3>1, <3>2, <3>3
        <4> HIDE DEF d
        <4>2. /\ camera' \in CameraStates /\ camera'.hw = d /\ camera'.set = d
              /\ camera'.kind = camera.kind /\ camera'.has = camera.has
              /\ camera'.alive = camera.alive
          <5> DEFINE h == [camera EXCEPT !.hw = d]
          <5>1. /\ h \in CameraStates /\ h.kind = camera.kind /\ h.has = camera.has
                /\ h.alive = camera.alive /\ h.hw = d
            BY <1>7, <4>1 DEF CameraStates
          <5>2. camera' = [h EXCEPT !.set = d]
            BY <1>7, <4>1 DEF CameraStates
          <5> HIDE DEF h
          <5>3. /\ camera' \in CameraStates /\ camera'.kind = h.kind /\ camera'.has = h.has
                /\ camera'.alive = h.alive /\ camera'.hw = h.hw /\ camera'.set = d
            BY ONLY <4>1, <5>1, <5>2 DEF CameraStates
          <5> QED
            BY ONLY <5>1, <5>3
        <4> QED
          BY <1>2, <3>3, <4>2 DEF RestInv, OwnControls, SetInCamera
      <3>4. CASE camera.kind # "software"
        <4>1. /\ camera' \in CameraStates /\ camera'.kind = camera.kind
              /\ camera'.alive = camera.alive /\ camera'.known = FALSE
          BY ONLY <1>7, <3>1, <3>2, <3>4 DEF CameraStates
        <4> QED
          BY <1>2, <3>4, <4>1 DEF RestInv, OwnControls, SetInCamera
      <3> QED
        BY <3>3, <3>4
    <2> QED
      BY <2>1, <2>2, <2>3
  <1> QED
    BY <1>1, <1>3, <1>4, <1>5, <1>6 DEF RestInv, RestTypeOK

LEMMA TurningInv == ASSUME RestInv, ReadPan \/ WritePan \/ WriteTilt PROVE RestInv'
  <1>1. RestTypeOK
    BY DEF RestInv
  <1>2. camera \in CameraStates /\ rest \in Commands /\ tracker' = tracker
    BY <1>1 DEF RestTypeOK, ReadPan, WritePan, WriteTilt
  <1>3. CASE ReadPan
    <2>1. PICK v \in Directions :
             rest' = [NoCommand EXCEPT !.at = "pan", !.value = v, !.old = camera.tilt]
      BY <1>3 DEF ReadPan
    <2>2. rest' \in Commands /\ rest'.at = "pan" /\ rest'.value = v /\ rest'.freed = FALSE
      <3> DEFINE o == camera.tilt
      <3>1. rest' = [at |-> "pan", value |-> v, ok |-> FALSE, result |-> 0, old |-> o,
                     ended |-> FALSE, moved |-> FALSE, freed |-> FALSE]
        BY <2>1 DEF NoCommand
      <3>2. o \in Directions \cup {0} /\ v \in ControlValues \cup Directions \cup {0}
        BY <1>2 DEF CameraStates
      <3> HIDE DEF o
      <3> QED
        BY <3>1, <3>2 DEF Commands
    <2>3. camera' = camera
      BY <1>3 DEF ReadPan
    <2> QED
      BY <1>1, <1>2, <2>2, <2>3
      DEF RestInv, RestTypeOK, OwnControls, SetInCamera, ShownOfCamera, EndedSince, Turned
  <1>4. CASE WritePan
    <2>1. /\ rest.at = "pan" /\ camera' = [camera EXCEPT !.pan = rest.value]
          /\ rest' = [rest EXCEPT !.at = "tilt", !.ok = TRUE]
      BY <1>4 DEF WritePan, Reply
    <2>2. /\ rest' \in Commands /\ rest'.at = "tilt" /\ rest'.freed = rest.freed
          /\ rest'.value = rest.value
      BY ONLY <1>2, <2>1 DEF Commands
    <2>3. /\ camera'.pan = rest.value
          /\ camera'.kind = camera.kind /\ camera'.has = camera.has /\ camera'.hw = camera.hw
          /\ camera'.set = camera.set /\ camera'.known = camera.known
          /\ camera'.alive = camera.alive
      BY ONLY <1>2, <2>1 DEF CameraStates
    <2>4. rest.value \in Directions \cup {0}
      BY <1>1, <2>1 DEF RestTypeOK
    <2>5. camera' \in CameraStates
      BY ONLY <1>2, <2>1, <2>4 DEF CameraStates
    <2> QED
      BY <1>1, <1>2, <2>1, <2>2, <2>3, <2>5
      DEF RestInv, RestTypeOK, OwnControls, SetInCamera, ShownOfCamera, EndedSince, Turned
  <1>5. CASE WriteTilt
    <2>1. /\ rest.at = "tilt" /\ camera' = [camera EXCEPT !.tilt = rest.old]
          /\ rest' = [rest EXCEPT !.at = "turned", !.ok = TRUE]
      BY <1>5 DEF WriteTilt, Reply
    <2>2. /\ rest' \in Commands /\ rest'.at = "turned" /\ rest'.freed = rest.freed
          /\ rest'.value = rest.value /\ rest'.old = rest.old /\ rest'.moved = rest.moved
      BY ONLY <1>2, <2>1 DEF Commands
    <2>3. /\ camera'.pan = camera.pan /\ camera'.tilt = rest.old
          /\ camera'.kind = camera.kind /\ camera'.has = camera.has /\ camera'.hw = camera.hw
          /\ camera'.set = camera.set /\ camera'.known = camera.known
          /\ camera'.alive = camera.alive
      BY ONLY <1>2, <2>1 DEF CameraStates
    <2>4. camera' \in CameraStates
      BY ONLY <1>2, <2>1 DEF CameraStates, Commands
    <2> QED
      BY <1>1, <1>2, <2>1, <2>2, <2>3, <2>4
      DEF RestInv, RestTypeOK, OwnControls, SetInCamera, ShownOfCamera, EndedSince, Turned
  <1> QED
    BY <1>3, <1>4, <1>5

(* Whatever range the camera has, and whenever its source ends: a value    *)
(* that is shown is the accepted one as far as the range lets it, controls *)
(* that are gone are used only by a command during which the source ended, *)
(* and a command turns the camera as told but for what the trigger does.   *)
THEOREM RestSoundHolds == RestSpec => []RestSound
  <1>1. RestInit => RestInv
    BY RestInvInit
  <1>2. RestInv /\ [RestNext]_restVars => RestInv'
    <2> SUFFICES ASSUME RestInv, [RestNext]_restVars PROVE RestInv'
      OBVIOUS
    <2>1. CASE UNCHANGED restVars
      BY <2>1
      DEF restVars, RestInv, RestTypeOK, OwnControls, SetInCamera, ShownOfCamera, ShownValue,
          EndedSince, Turned
    <2> QED
      BY <2>1, CameraLeftAlone, SourceInv, TrackerInv, SettingInv, TurningInv DEF RestNext
  <1>3. RestInv => RestSound
    <2> SUFFICES ASSUME RestInv PROVE RestSound
      OBVIOUS
    <2>1. ASSUME rest.at = "shown", camera.known
          PROVE  /\ rest.result <= camera.set
                 /\ IF camera.kind = "software" THEN rest.result = camera.set
                    ELSE (camera.set - rest.result) * (RangeMax - RangeMin)
                            < Full + RangeMax - RangeMin
      <3>1. camera.set \in Int
        BY DEF RestInv, RestTypeOK, CameraStates
      <3>2. CASE camera.kind = "software"
        BY <2>1, <3>1, <3>2 DEF RestInv, SetInCamera, ShownOfCamera, ShownValue
      <3>3. CASE camera.kind # "software"
        <4>1. rest.result = Scaled(Unscaled(camera.set))
          BY <2>1, <3>3 DEF RestInv, SetInCamera, ShownOfCamera, ShownValue
        <4>2. /\ Scaled(Unscaled(camera.set)) <= camera.set
              /\ (camera.set - Scaled(Unscaled(camera.set))) * (RangeMax - RangeMin)
                    < Full + RangeMax - RangeMin
          BY <3>1, ThereAndBack
        <4> QED
          BY <3>3, <4>1, <4>2
      <3> QED
        BY <3>2, <3>3
    <2> QED
      BY <2>1 DEF RestInv, EndedSince, Turned, RestSound
  <1> QED
    BY <1>1, <1>2, <1>3, PTL DEF RestSpec

-----------------------------------------------------------------------------
(***************************************************************************)
(* RtspServer: the users that the RTSP target has of its source, and the   *)
(* descriptors its threads close, for any number of connections and of     *)
(* descriptors.                                                            *)
(*                                                                         *)
(* That nothing of another connection is closed as long as sessions do not *)
(* overlap needs what then is open: the connection of the only session,    *)
(* under the descriptor that the loop variable still holds.                *)
(***************************************************************************)

SessionPlaces == {"none", "starting", "serving", "pausing", "closing", "closed", "gone"}
PlayPlaces == {"none", "starting", "streaming", "ended"}

SessionStates == [at : SessionPlaces, fd : Descriptors \cup {NoFd}, setup : BOOLEAN,
                  play : PlayPlaces, stop_play : BOOLEAN]

RtspTypeOK ==
    /\ rtsp \in [main : {"accepting", "ended", "exit"}, stop : BOOLEAN, paused : BOOLEAN,
                 client_fd : Descriptors \cup {NoFd}, open : [Descriptors -> Nat],
                 made : Nat, users : Int, stolen : BOOLEAN, overlap : BOOLEAN]
    /\ session \in [Connections -> SessionStates]

Streaming == {c \in Connections : session[c].play = "streaming"}

UsersAreThreads == rtsp.users = Cardinality(Streaming)

ClosedIsJoined ==
    \A c \in Connections : session[c].at \in {"closed", "gone"} =>
       session[c].play \in {"none", "ended"}

HasConnection(c) == session[c].at \in {"starting", "serving", "pausing", "closing"}

\* Without overlap there is one session at most, of the newest connection.
AloneOwnsAll ==
    ~rtsp.overlap =>
       /\ ~rtsp.stolen
       /\ \A c \in Alive : /\ c = rtsp.made
                           /\ session[c].at # "starting" => session[c].fd = rtsp.client_fd
       /\ \A d \in Descriptors : rtsp.open[d] # 0 =>
            /\ d = rtsp.client_fd /\ rtsp.open[d] = rtsp.made
            /\ rtsp.made \in Connections /\ HasConnection(rtsp.made)

RtspInv == RtspTypeOK /\ UsersAreThreads /\ ClosedIsJoined /\ AloneOwnsAll

(* A session of which some fields are set is a session still.              *)
LEMMA SessionUpdate ==
    ASSUME RtspTypeOK, NEW c \in Connections, NEW s \in SessionStates,
           session' = [session EXCEPT ![c] = s]
    PROVE  session' \in [Connections -> SessionStates]
  BY DEF RtspTypeOK

LEMMA SessionFields ==
    ASSUME NEW s \in SessionStates, NEW at \in SessionPlaces, NEW play \in PlayPlaces,
           NEW fd \in Descriptors \cup {NoFd}, NEW told \in BOOLEAN
    PROVE  /\ [s EXCEPT !.at = at] \in SessionStates
           /\ [s EXCEPT !.play = play] \in SessionStates
           /\ [s EXCEPT !.at = at, !.fd = fd] \in SessionStates
           /\ [s EXCEPT !.at = at, !.play = play, !.stop_play = told] \in SessionStates
  BY DEF SessionStates

LEMMA StreamingFinite == IsFiniteSet(Streaming) /\ IsFiniteSet(Streaming')
  <1>1. IsFiniteSet(Connections)
    <2>1. 1 \in Int /\ RtspConnections \in Int
      BY RtspAssumption
    <2> QED
      BY <2>1, FS_Interval DEF Connections
  <1>2. Streaming \subseteq Connections /\ Streaming' \subseteq Connections
    BY DEF Streaming
  <1> QED
    BY <1>1, <1>2, FS_Subset

(* A step that starts or ends no RTP thread and leaves the descriptors and *)
(* the number of users alone.                                              *)
LEMMA RtspQuiet ==
    ASSUME RtspInv, RtspTypeOK', ClosedIsJoined', UNCHANGED rtsp,
           \A c \in Connections :
              /\ session'[c].fd = session[c].fd
              /\ session'[c].play = "streaming" <=> session[c].play = "streaming"
              /\ HasConnection(c) => HasConnection(c)'
              /\ session'[c].at # "starting" \/ session[c].at = "starting"
              /\ session'[c].at \notin {"none", "gone"} =>
                    session[c].at \notin {"none", "gone", "starting"} \/ session'[c].at = "starting"
    PROVE  RtspInv'
  <1>1. Streaming' = Streaming
    BY DEF Streaming
  <1>2. UsersAreThreads'
    BY <1>1 DEF RtspInv, UsersAreThreads
  <1>3. \A c \in Connections : c \in Alive' => c \in Alive
    BY DEF Alive
  <1>4. AloneOwnsAll'
    BY <1>3 DEF RtspInv, AloneOwnsAll, Alive
  <1> QED
    BY <1>2, <1>4 DEF RtspInv

LEMMA RtspInvInit == RtspInit => RtspInv
  <1> SUFFICES ASSUME RtspInit PROVE RtspInv
    OBVIOUS
  <1>1. RtspTypeOK
    BY DEF RtspInit, RtspTypeOK, SessionStates, SessionPlaces, PlayPlaces
  <1>2. Streaming = {}
    BY DEF RtspInit, Streaming
  <1>3. UsersAreThreads
    BY <1>2, FS_EmptySet DEF RtspInit, UsersAreThreads
  <1>4. ClosedIsJoined /\ AloneOwnsAll
    BY DEF RtspInit, ClosedIsJoined, AloneOwnsAll, Alive
  <1> QED
    BY <1>1, <1>3, <1>4 DEF RtspInv

-----------------------------------------------------------------------------
(* The accepting thread.                                                   *)

LEMMA RtspAcceptInv == RtspInv /\ RtspAccept => RtspInv'
  <1> SUFFICES ASSUME RtspInv, RtspAccept PROVE RtspInv'
    OBVIOUS
  <1> DEFINE n == rtsp.made + 1
  <1>1. PICK d \in Descriptors :
          /\ rtsp.open[d] = 0
          /\ rtsp' = [rtsp EXCEPT !.client_fd = d, !.made = @ + 1, !.open[d] = rtsp.made + 1,
                                  !.overlap = @ \/ Alive # {}]
          /\ session' = [session EXCEPT ![rtsp.made + 1].at = "starting"]
    BY DEF RtspAccept
  <1>2. n \in Nat /\ n # 0 /\ n \in Connections
    BY RtspAssumption DEF RtspAccept, RtspInv, RtspTypeOK, Connections
  <1>3. /\ \A c \in Connections \ {n} : session'[c] = session[c]
        /\ session'[n].at = "starting" /\ session'[n].play = session[n].play
    BY <1>1, <1>2 DEF RtspInv, RtspTypeOK
  <1>4. /\ rtsp'.made = n /\ rtsp'.client_fd = d /\ rtsp'.users = rtsp.users
        /\ rtsp'.overlap = (rtsp.overlap \/ Alive # {}) /\ rtsp'.stolen = rtsp.stolen
        /\ rtsp'.open = [rtsp.open EXCEPT ![d] = n]
        /\ rtsp' = [rtsp EXCEPT !.client_fd = d, !.made = n, !.open = rtsp'.open,
                                !.overlap = rtsp'.overlap]
    BY <1>1 DEF RtspInv, RtspTypeOK
  <1> HIDE DEF n
  <1>5. RtspTypeOK'
    <2>1. rtsp'.open \in [Descriptors -> Nat] /\ rtsp'.overlap \in BOOLEAN
      BY <1>2, <1>4 DEF RtspInv, RtspTypeOK
    <2>2. session' \in [Connections -> SessionStates]
      BY <1>1, <1>2 DEF n, RtspInv, RtspTypeOK, SessionStates, SessionPlaces
    <2> QED
      BY <1>2, <1>4, <2>1, <2>2 DEF RtspInv, RtspTypeOK
  <1>6. UsersAreThreads'
    <2>1. Streaming' = Streaming
      BY <1>2, <1>3 DEF Streaming
    <2> QED
      BY <1>4, <2>1 DEF RtspInv, UsersAreThreads
  <1>7. ClosedIsJoined'
    BY <1>3 DEF RtspInv, ClosedIsJoined
  <1>8. AloneOwnsAll'
    <2> SUFFICES ASSUME ~rtsp.overlap, Alive = {} PROVE AloneOwnsAll'
      BY <1>4 DEF AloneOwnsAll
    <2>1. \A e \in Descriptors : rtsp.open[e] = 0
      BY DEF RtspInv, AloneOwnsAll, HasConnection, Alive
    <2>2. \A e \in Descriptors : rtsp'.open[e] # 0 => e = d /\ rtsp'.open[e] = n
      BY <1>4, <2>1 DEF RtspInv, RtspTypeOK
    <2>3. \A c \in Alive' : c = n
      BY <1>3 DEF Alive
    <2> QED
      BY <1>2, <1>3, <1>4, <2>2, <2>3 DEF RtspInv, AloneOwnsAll, HasConnection
  <1> QED
    BY <1>5, <1>6, <1>7, <1>8 DEF RtspInv

LEMMA RtspMainInv ==
    RtspInv /\ (RtspMainEnds \/ RtspRestart \/ RtspStop \/ RtspPause) => RtspInv'
  <1> SUFFICES ASSUME RtspInv, RtspMainEnds \/ RtspRestart \/ RtspStop \/ RtspPause
               PROVE  RtspInv'
    OBVIOUS
  <1>1. /\ session' = session /\ rtsp'.users = rtsp.users /\ rtsp'.overlap = rtsp.overlap
        /\ rtsp'.stolen = rtsp.stolen /\ rtsp'.made = rtsp.made /\ rtsp'.open = rtsp.open
        /\ rtsp'.client_fd = rtsp.client_fd
    BY DEF RtspInv, RtspTypeOK, RtspMainEnds, RtspRestart, RtspStop, RtspPause
  <1>2. RtspTypeOK'
    BY DEF RtspInv, RtspTypeOK, RtspMainEnds, RtspRestart, RtspStop, RtspPause
  <1> QED
    BY <1>1, <1>2 DEF RtspInv, UsersAreThreads, Streaming, ClosedIsJoined, AloneOwnsAll, Alive,
                      HasConnection

-----------------------------------------------------------------------------
(* A session.                                                              *)

(* Now the loop variable is read: alone, it still is that of the session.  *)
LEMMA SessionStartsInv ==
    ASSUME RtspInv, NEW c \in Connections, SessionStarts(c) PROVE RtspInv'
  <1>1. /\ session[c].at = "starting" /\ UNCHANGED rtsp
        /\ session' = [session EXCEPT ![c].at = "serving", ![c].fd = rtsp.client_fd]
    BY DEF SessionStarts
  <1>2. /\ \A o \in Connections \ {c} : session'[o] = session[o]
        /\ session'[c].at = "serving" /\ session'[c].fd = rtsp.client_fd
        /\ session'[c].play = session[c].play
    BY <1>1 DEF RtspInv, RtspTypeOK
  <1>3. RtspTypeOK'
    <2> DEFINE s == [session[c] EXCEPT !.at = "serving", !.fd = rtsp.client_fd]
    <2>1. session' = [session EXCEPT ![c] = s]
      BY <1>1
    <2>2. /\ session[c] \in SessionStates /\ rtsp.client_fd \in Descriptors \cup {NoFd}
          /\ "serving" \in SessionPlaces
      BY DEF RtspInv, RtspTypeOK, SessionPlaces
    <2>3. s \in SessionStates
      BY <2>2, SessionFields DEF PlayPlaces
    <2> HIDE DEF s
    <2>4. session' \in [Connections -> SessionStates]
      BY <2>1, <2>3, SessionUpdate DEF RtspInv
    <2> QED
      BY <1>1, <2>4 DEF RtspInv, RtspTypeOK
  <1>4. Streaming' = Streaming
    BY <1>2 DEF Streaming
  <1>5. UsersAreThreads'
    BY <1>1, <1>4 DEF RtspInv, UsersAreThreads
  <1>6. ClosedIsJoined'
    BY <1>2 DEF RtspInv, ClosedIsJoined
  <1>7. AloneOwnsAll'
    <2>1. Alive' = Alive
      BY <1>1, <1>2 DEF Alive
    <2>2. \A o \in Connections : HasConnection(o) => HasConnection(o)'
      BY <1>1, <1>2 DEF HasConnection
    <2>3. \A o \in Alive : session'[o].at # "starting" /\ o # c => session'[o].fd = session[o].fd
      BY <1>2 DEF Alive
    <2>4. ASSUME ~rtsp.overlap, NEW o \in Alive
          PROVE  /\ o = rtsp.made
                 /\ session'[o].at # "starting" => session'[o].fd = rtsp.client_fd
      <3>1. /\ o = rtsp.made
            /\ session[o].at # "starting" => session[o].fd = rtsp.client_fd
        BY <2>4 DEF RtspInv, AloneOwnsAll
      <3>2. CASE o = c
        BY <1>2, <3>1, <3>2
      <3>3. CASE o # c
        BY <1>2, <3>1, <3>3 DEF Alive
      <3> QED
        BY <3>2, <3>3
    <2>5. ASSUME ~rtsp.overlap, NEW d \in Descriptors, rtsp.open[d] # 0
          PROVE  /\ d = rtsp.client_fd /\ rtsp.open[d] = rtsp.made
                 /\ rtsp.made \in Connections /\ HasConnection(rtsp.made)'
      BY <1>1, <2>2, <2>5 DEF RtspInv, AloneOwnsAll, HasConnection
    <2>6. ~rtsp.overlap => ~rtsp.stolen
      BY DEF RtspInv, AloneOwnsAll
    <2> QED
      BY <1>1, <2>1, <2>4, <2>5, <2>6 DEF AloneOwnsAll, HasConnection
  <1> QED
    BY <1>3, <1>5, <1>6, <1>7 DEF RtspInv

LEMMA SessionTalksInv ==
    ASSUME RtspInv, NEW c \in Connections,
           Setup(c) \/ Play(c) \/ Pause(c) \/ Teardown(c) \/ Leave(c) \/ PauseDone(c)
    PROVE  RtspInv'
  <1>1. /\ UNCHANGED rtsp /\ session[c].at \in {"serving", "pausing"}
        /\ \A o \in Connections \ {c} : session'[o] = session[o]
        /\ session'[c].at \in {"serving", "pausing", "closing"}
        /\ session'[c].fd = session[c].fd
        /\ session'[c].play = "streaming" <=> session[c].play = "streaming"
    BY DEF RtspInv, RtspTypeOK, SessionStates, Setup, Play, Pause, Teardown, Leave, PauseDone, StopPlay,
           Serving, Joined
  <1>2. RtspTypeOK'
    <2>0. session[c] \in SessionStates
      BY DEF RtspInv, RtspTypeOK
    <2>1. CASE Setup(c)
      BY <2>1 DEF RtspInv, RtspTypeOK, SessionStates, Setup
    <2>2. CASE PauseDone(c)
      <3> DEFINE served == [session[c] EXCEPT !.at = "serving", !.play = "none",
                                              !.stop_play = FALSE]
      <3>1. served \in SessionStates
        BY <2>0, SessionFields DEF SessionPlaces, PlayPlaces
      <3>2. session' = [session EXCEPT ![c] = served] /\ UNCHANGED rtsp
        BY <2>2 DEF PauseDone
      <3> HIDE DEF served
      <3> QED
        BY <3>1, <3>2, SessionUpdate DEF RtspInv, RtspTypeOK
    <2>3. CASE Play(c)
      BY <2>3 DEF RtspInv, RtspTypeOK, SessionStates, Play, PlayPlaces
    <2>4. CASE Pause(c) \/ Teardown(c) \/ Leave(c)
      <3>1. PICK then \in {"pausing", "closing"} : StopPlay(c, then) /\ UNCHANGED rtsp
        BY <2>4 DEF Pause, Teardown, Leave
      <3> DEFINE told == [session[c] EXCEPT !.at = then, !.play = session[c].play,
                            !.stop_play = session[c].stop_play \/ session[c].play # "none"]
      <3>2. told \in SessionStates
        <4>1. /\ then \in SessionPlaces /\ session[c].play \in PlayPlaces
              /\ (session[c].stop_play \/ session[c].play # "none") \in BOOLEAN
          BY <2>0 DEF SessionStates, SessionPlaces
        <4> QED
          BY <2>0, <4>1, SessionFields
      <3>3. session' = [session EXCEPT ![c] = told]
        BY <2>0, <3>1 DEF StopPlay, SessionStates
      <3> HIDE DEF told
      <3> QED
        BY <3>1, <3>2, <3>3, SessionUpdate DEF RtspInv, RtspTypeOK
    <2> QED
      BY <2>1, <2>2, <2>3, <2>4
  <1>3. ClosedIsJoined'
    BY <1>1 DEF RtspInv, ClosedIsJoined
  <1> QED
    BY <1>1, <1>2, <1>3, RtspQuiet DEF HasConnection

(* What CloseFd does to the target.                                        *)
LEMMA CloseFdEffect ==
    ASSUME RtspTypeOK, NEW d \in Descriptors \cup {NoFd}, NEW c \in Connections,
           rtsp' = CloseFd(rtsp, d, c)
    PROVE  /\ rtsp' \in [main : {"accepting", "ended", "exit"}, stop : BOOLEAN, paused : BOOLEAN,
                         client_fd : Descriptors \cup {NoFd}, open : [Descriptors -> Nat],
                         made : Nat, users : Int, stolen : BOOLEAN, overlap : BOOLEAN]
           /\ rtsp'.users = rtsp.users /\ rtsp'.overlap = rtsp.overlap
           /\ rtsp'.made = rtsp.made /\ rtsp'.client_fd = rtsp.client_fd
           /\ \A e \in Descriptors : rtsp'.open[e] = IF e = d THEN 0 ELSE rtsp.open[e]
           /\ rtsp'.stolen =>
                rtsp.stolen \/ (d \in Descriptors /\ rtsp.open[d] # 0 /\ rtsp.open[d] # c)
  <1>1. CASE d = NoFd \/ rtsp.open[d] = 0
    BY <1>1 DEF CloseFd, RtspTypeOK, NoFd, Descriptors
  <1>2. CASE ~(d = NoFd \/ rtsp.open[d] = 0)
    <2>1. rtsp' = [rtsp EXCEPT !.open = [rtsp.open EXCEPT ![d] = 0],
                               !.stolen = @ \/ rtsp.open[d] # c]
      BY <1>2 DEF CloseFd
    <2>2. [rtsp.open EXCEPT ![d] = 0] \in [Descriptors -> Nat] /\ d \in Descriptors
      BY <1>2 DEF RtspTypeOK, NoFd
    <2> QED
      <3>1. (rtsp.stolen \/ rtsp.open[d] # c) \in BOOLEAN
        OBVIOUS
      <3>2. /\ rtsp'.users = rtsp.users /\ rtsp'.overlap = rtsp.overlap
            /\ rtsp'.made = rtsp.made /\ rtsp'.client_fd = rtsp.client_fd
            /\ rtsp'.open = [rtsp.open EXCEPT ![d] = 0]
            /\ rtsp'.stolen = (rtsp.stolen \/ rtsp.open[d] # c)
        BY <2>1 DEF RtspTypeOK
      <3> QED
        BY <1>2, <2>1, <2>2, <3>1, <3>2 DEF RtspTypeOK
  <1> QED
    BY <1>1, <1>2

LEMMA SessionClosesInv ==
    ASSUME RtspInv, NEW c \in Connections, SessionCloses(c) PROVE RtspInv'
  <1>1. /\ session[c].at = "closing" /\ session[c].play \in {"none", "ended"}
        /\ rtsp' = CloseFd(rtsp, session[c].fd, c) /\ session[c].fd \in Descriptors \cup {NoFd}
        /\ session' = [session EXCEPT ![c].at = "closed"]
    BY DEF SessionCloses, Joined, RtspInv, RtspTypeOK, SessionStates
  <1>2. /\ \A o \in Connections \ {c} : session'[o] = session[o]
        /\ session'[c].at = "closed" /\ session'[c].play = session[c].play
        /\ session'[c].fd = session[c].fd
    BY <1>1 DEF RtspInv, RtspTypeOK
  <1>3. RtspTypeOK'
    <2> DEFINE s == [session[c] EXCEPT !.at = "closed"]
    <2>1. s \in SessionStates
      <3>1. session[c] \in SessionStates /\ "closed" \in SessionPlaces
        BY DEF RtspInv, RtspTypeOK, SessionPlaces
      <3> QED
        BY <3>1, SessionFields DEF PlayPlaces
    <2>2. session' = [session EXCEPT ![c] = s]
      BY <1>1
    <2> HIDE DEF s
    <2>3. session' \in [Connections -> SessionStates]
      BY <2>1, <2>2, SessionUpdate DEF RtspInv
    <2> QED
      BY <1>1, <2>3, CloseFdEffect DEF RtspInv, RtspTypeOK
  <1>4. UsersAreThreads'
    <2>1. Streaming' = Streaming
      BY <1>2 DEF Streaming
    <2> QED
      BY <1>1, <2>1, CloseFdEffect DEF RtspInv, UsersAreThreads
  <1>5. ClosedIsJoined'
    BY <1>1, <1>2 DEF RtspInv, ClosedIsJoined
  <1>6. AloneOwnsAll'
    <2> SUFFICES ASSUME ~rtsp.overlap PROVE AloneOwnsAll'
      BY <1>1, CloseFdEffect DEF RtspInv, AloneOwnsAll
    <2>1. c = rtsp.made /\ session[c].fd = rtsp.client_fd
      BY <1>1 DEF RtspInv, AloneOwnsAll, Alive
    <2>2. \A d \in Descriptors : rtsp'.open[d] = 0
      BY <1>1, <2>1, CloseFdEffect DEF RtspInv, AloneOwnsAll
    <2>3. ~rtsp'.stolen
      BY <1>1, <2>1, CloseFdEffect DEF RtspInv, AloneOwnsAll
    <2>4. \A o \in Alive' : o \in Alive /\ session'[o].at # "starting"
      BY <1>1, <1>2, <2>1 DEF Alive, RtspInv, AloneOwnsAll
    <2> QED
      BY <1>1, <1>2, <2>1, <2>2, <2>3, <2>4, CloseFdEffect DEF RtspInv, AloneOwnsAll
  <1> QED
    BY <1>3, <1>4, <1>5, <1>6 DEF RtspInv

(* The second close(): alone, there is nothing left to close.              *)
LEMMA SessionGoneInv ==
    ASSUME RtspInv, NEW c \in Connections, SessionGone(c) PROVE RtspInv'
  <1>1. /\ session[c].at = "closed"
        /\ rtsp' = CloseFd(rtsp, rtsp.client_fd, c) /\ rtsp.client_fd \in Descriptors \cup {NoFd}
        /\ session' = [session EXCEPT ![c].at = "gone"]
    BY DEF SessionGone, RtspInv, RtspTypeOK
  <1>2. /\ \A o \in Connections \ {c} : session'[o] = session[o]
        /\ session'[c].at = "gone" /\ session'[c].play = session[c].play
    BY <1>1 DEF RtspInv, RtspTypeOK
  <1>3. RtspTypeOK'
    <2> DEFINE s == [session[c] EXCEPT !.at = "gone"]
    <2>1. s \in SessionStates
      <3>1. session[c] \in SessionStates /\ "gone" \in SessionPlaces
        BY DEF RtspInv, RtspTypeOK, SessionPlaces
      <3> QED
        BY <3>1, SessionFields DEF PlayPlaces
    <2>2. session' = [session EXCEPT ![c] = s]
      BY <1>1
    <2> HIDE DEF s
    <2>3. session' \in [Connections -> SessionStates]
      BY <2>1, <2>2, SessionUpdate DEF RtspInv
    <2> QED
      BY <1>1, <2>3, CloseFdEffect DEF RtspInv, RtspTypeOK
  <1>4. UsersAreThreads'
    <2>1. Streaming' = Streaming
      BY <1>2 DEF Streaming
    <2> QED
      BY <1>1, <2>1, CloseFdEffect DEF RtspInv, UsersAreThreads
  <1>5. ClosedIsJoined'
    BY <1>1, <1>2 DEF RtspInv, ClosedIsJoined
  <1>6. AloneOwnsAll'
    <2> SUFFICES ASSUME ~rtsp.overlap PROVE AloneOwnsAll'
      BY <1>1, CloseFdEffect DEF RtspInv, AloneOwnsAll
    <2>1. c = rtsp.made /\ \A d \in Descriptors : rtsp.open[d] = 0
      BY <1>1 DEF RtspInv, AloneOwnsAll, Alive, HasConnection
    <2>2. \A d \in Descriptors : rtsp'.open[d] = 0
      BY <1>1, <2>1, CloseFdEffect DEF RtspInv
    <2>3. ~rtsp'.stolen
      BY <1>1, <2>1, CloseFdEffect DEF RtspInv, AloneOwnsAll
    <2>4. Alive' = {}
      BY <1>1, <1>2, <2>1 DEF Alive, RtspInv, AloneOwnsAll
    <2> QED
      BY <2>2, <2>3, <2>4 DEF AloneOwnsAll
  <1> QED
    BY <1>3, <1>4, <1>5, <1>6 DEF RtspInv

-----------------------------------------------------------------------------
(* An RTP thread.                                                          *)

LEMMA RtpStartsInv ==
    ASSUME RtspInv, NEW c \in Connections, RtpStarts(c) PROVE RtspInv'
  <1>1. /\ session[c].play = "starting" /\ session' = [session EXCEPT ![c].play = "streaming"]
        /\ rtsp' = [rtsp EXCEPT !.users = @ + 1]
    BY DEF RtpStarts
  <1>2. /\ \A o \in Connections \ {c} : session'[o] = session[o]
        /\ session'[c].play = "streaming" /\ session'[c].at = session[c].at
        /\ session'[c].fd = session[c].fd
    BY <1>1 DEF RtspInv, RtspTypeOK
  <1>3. /\ rtsp'.users = rtsp.users + 1 /\ rtsp'.open = rtsp.open /\ rtsp'.made = rtsp.made
        /\ rtsp'.client_fd = rtsp.client_fd /\ rtsp'.overlap = rtsp.overlap
        /\ rtsp'.stolen = rtsp.stolen
    BY <1>1 DEF RtspInv, RtspTypeOK
  <1>4. RtspTypeOK'
    <2> DEFINE s == [session[c] EXCEPT !.play = "streaming"]
    <2>1. s \in SessionStates
      <3>1. session[c] \in SessionStates /\ "streaming" \in PlayPlaces
        BY DEF RtspInv, RtspTypeOK, PlayPlaces
      <3> QED
        BY <3>1, SessionFields DEF SessionPlaces
    <2>2. session' = [session EXCEPT ![c] = s]
      BY <1>1
    <2> HIDE DEF s
    <2>3. session' \in [Connections -> SessionStates]
      BY <2>1, <2>2, SessionUpdate DEF RtspInv
    <2> QED
      BY <1>1, <2>3 DEF RtspInv, RtspTypeOK
  <1>5. UsersAreThreads'
    <2>1. c \notin Streaming /\ Streaming' = Streaming \cup {c}
      BY <1>1, <1>2 DEF Streaming
    <2>2. Cardinality(Streaming') = Cardinality(Streaming) + 1
      BY <2>1, StreamingFinite, FS_AddElement
    <2> QED
      BY <1>3, <2>2 DEF RtspInv, UsersAreThreads
  <1>6. ClosedIsJoined'
    BY <1>1, <1>2 DEF RtspInv, ClosedIsJoined
  <1>7. AloneOwnsAll'
    BY <1>2, <1>3 DEF RtspInv, AloneOwnsAll, Alive, HasConnection
  <1> QED
    BY <1>4, <1>5, <1>6, <1>7 DEF RtspInv

LEMMA RtpStopsInv ==
    ASSUME RtspInv, NEW c \in Connections, RtpEnds(c) \/ RtpFails(c) PROVE RtspInv'
  <1>1. /\ session[c].play = "streaming" /\ session' = [session EXCEPT ![c].play = "ended"]
        /\ rtsp' = [rtsp EXCEPT !.users = @ - 1]
    BY DEF RtpEnds, RtpFails
  <1>2. /\ \A o \in Connections \ {c} : session'[o] = session[o]
        /\ session'[c].play = "ended" /\ session'[c].at = session[c].at
        /\ session'[c].fd = session[c].fd
    BY <1>1 DEF RtspInv, RtspTypeOK
  <1>3. /\ rtsp'.users = rtsp.users - 1 /\ rtsp'.open = rtsp.open /\ rtsp'.made = rtsp.made
        /\ rtsp'.client_fd = rtsp.client_fd /\ rtsp'.overlap = rtsp.overlap
        /\ rtsp'.stolen = rtsp.stolen
    BY <1>1 DEF RtspInv, RtspTypeOK
  <1>4. RtspTypeOK'
    <2> DEFINE s == [session[c] EXCEPT !.play = "ended"]
    <2>1. s \in SessionStates
      <3>1. session[c] \in SessionStates /\ "ended" \in PlayPlaces
        BY DEF RtspInv, RtspTypeOK, PlayPlaces
      <3> QED
        BY <3>1, SessionFields DEF SessionPlaces
    <2>2. session' = [session EXCEPT ![c] = s]
      BY <1>1
    <2> HIDE DEF s
    <2>3. session' \in [Connections -> SessionStates]
      BY <2>1, <2>2, SessionUpdate DEF RtspInv
    <2> QED
      BY <1>1, <2>3 DEF RtspInv, RtspTypeOK
  <1>5. UsersAreThreads'
    <2>1. c \in Streaming /\ Streaming' = Streaming \ {c}
      BY <1>1, <1>2 DEF Streaming
    <2>2. Cardinality(Streaming') = Cardinality(Streaming) - 1
      BY <2>1, StreamingFinite, FS_RemoveElement
    <2> QED
      BY <1>3, <2>2 DEF RtspInv, UsersAreThreads
  <1>6. ClosedIsJoined'
    BY <1>1, <1>2 DEF RtspInv, ClosedIsJoined
  <1>7. AloneOwnsAll'
    BY <1>2, <1>3 DEF RtspInv, AloneOwnsAll, Alive, HasConnection
  <1> QED
    BY <1>4, <1>5, <1>6, <1>7 DEF RtspInv

-----------------------------------------------------------------------------
(* The inductive invariant, of every reachable state.                      *)
THEOREM RtspInvHolds == RtspSpec => []RtspInv
  <1>1. RtspInv /\ [RtspNext]_rtspVars => RtspInv'
    <2>1. RtspInv /\ UNCHANGED rtspVars => RtspInv'
      BY DEF RtspInv, rtspVars, RtspTypeOK, UsersAreThreads, Streaming, ClosedIsJoined,
             AloneOwnsAll, Alive, HasConnection
    <2> QED
      BY <2>1, RtspAcceptInv, RtspMainInv, SessionStartsInv, SessionTalksInv, SessionClosesInv,
         SessionGoneInv, RtpStartsInv, RtpStopsInv DEF RtspNext, SessionStep, SessionRequest
  <1> QED
    BY <1>1, RtspInvInit, PTL DEF RtspSpec

(* Every RTP thread is one user of the source until it ends; a descriptor  *)
(* of another connection is closed only when sessions overlapped.          *)
THEOREM RtspBalancedHolds == RtspSpec => []RtspBalanced
  <1>1. RtspInv => RtspBalanced
    <2> SUFFICES ASSUME RtspInv PROVE RtspBalanced
      OBVIOUS
    <2>1. rtsp.users = Cardinality({c \in Connections : session[c].play = "streaming"})
      BY DEF RtspInv, UsersAreThreads, Streaming
    <2>2. \A c \in Connections : session[c].at \in {"closed", "gone"} =>
             session[c].play \in {"none", "ended"}
      BY DEF RtspInv, ClosedIsJoined
    <2>3. rtsp.stolen => rtsp.overlap
      BY DEF RtspInv, AloneOwnsAll
    <2>4. ASSUME NEW c \in Connections, session[c].at = "gone", ~rtsp.overlap,
                 NEW d \in Descriptors
          PROVE  rtsp.open[d] # c
      BY <2>4, RtspAssumption DEF RtspInv, AloneOwnsAll, HasConnection, Connections
    <2> QED
      BY <2>1, <2>2, <2>3, <2>4 DEF RtspBalanced
  <1> QED
    BY <1>1, RtspInvHolds, PTL

-----------------------------------------------------------------------------
(***************************************************************************)
(* PixelServer: the threads of the pixelflood source, for any number of    *)
(* starts and of connections, and each of its protocols.                   *)
(***************************************************************************)

PainterStates == [at : {"none", "serving", "ended"}, server : Servers \cup {0},
                  record : BOOLEAN]

PixelTypeOK ==
    /\ pixel \in [protocol : PixelProtocols, scales : BOOLEAN, main : {"off", "running", "stuck"},
                  stop : BOOLEAN, started : 0 .. PixelServers, made : 0 .. PixelClients,
                  exit : BOOLEAN, deleted : BOOLEAN, early : BOOLEAN]
    /\ pixel_server \in [Servers -> {"none", "starting", "serving", "joining", "ended"}]
    /\ painter \in [Painters -> PainterStates]

Listens(s) == pixel_server[s] \in {"serving", "joining"}

ClientsOwned ==
    \A c \in Painters : painter[c].at = "serving" =>
       painter[c].record /\ painter[c].server \in Servers /\ Listens(painter[c].server)

NotYetStarted == \A s \in Servers : s > pixel.started => pixel_server[s] = "none"

\* Two servers at the same time are the fault of an early start, and never both
\* listen to the port for TCP.
OneServer ==
    \A s, o \in Servers :
       /\ pixel.protocol = "tcp" /\ Listens(s) /\ Listens(o) => s = o
       /\ ~pixel.early /\ Serves(s) /\ Serves(o) => s = o

PixelInv ==
    PixelTypeOK /\ ClientsOwned /\ NotYetStarted /\ OneServer /\ (pixel.exit => pixel.early)

USE DEF Listens, Serves

LEMMA PixelBounds == PixelServers \in Nat /\ PixelServers > 0 /\ PixelClients \in Nat
  <1>1. PixelServers \in Nat \ {0} /\ PixelClients \in Nat
    BY Zenon, PixelAssumption
  <1> QED
    BY <1>1

(* A client thread whose record is deleted.                                *)
LEMMA PainterUpdate ==
    ASSUME PixelTypeOK, NEW c \in Painters, painter' = [painter EXCEPT ![c].record = FALSE]
    PROVE  painter' \in [Painters -> PainterStates]
  <1> DEFINE p == [painter[c] EXCEPT !.record = FALSE]
  <1>1. painter[c] \in PainterStates
    BY DEF PixelTypeOK
  <1>2. p \in PainterStates
    BY <1>1 DEF PainterStates
  <1>3. painter' = [painter EXCEPT ![c] = p]
    OBVIOUS
  <1> HIDE DEF p
  <1> QED
    BY <1>2, <1>3 DEF PixelTypeOK

(* A step is judged by what it makes of the fields the invariant speaks of. *)
LEMMA PixelKept ==
    ASSUME PixelInv, PixelTypeOK', ClientsOwned',
           pixel'.started = pixel.started, pixel'.protocol = pixel.protocol,
           pixel'.early = pixel.early, pixel'.exit = pixel.exit,
           \A s \in Servers : /\ pixel_server[s] = "none" => pixel_server'[s] = "none"
                              /\ Serves(s)' => Serves(s)
                              /\ Listens(s)' => Listens(s)
    PROVE  PixelInv'
  <1>1. NotYetStarted'
    BY DEF PixelInv, NotYetStarted
  <1>2. OneServer'
    BY DEF PixelInv, OneServer
  <1> QED
    BY <1>1, <1>2 DEF PixelInv

LEMMA PixelInvInit == PixelInit => PixelInv
  <1> SUFFICES ASSUME PixelInit PROVE PixelInv
    OBVIOUS
  <1>1. PixelTypeOK
    <2>1. PICK p \in PixelProtocols, scales \in BOOLEAN :
            pixel = [protocol |-> p, scales |-> scales, main |-> "off", stop |-> FALSE,
                     started |-> 0, made |-> 0, exit |-> FALSE, deleted |-> FALSE,
                     early |-> FALSE]
      BY DEF PixelInit
    <2>2. 0 \in 0 .. PixelServers /\ 0 \in 0 .. PixelClients
      BY PixelBounds
    <2>3. painter \in [Painters -> PainterStates]
      BY DEF PixelInit, PainterStates
    <2>4. pixel_server \in [Servers -> {"none", "starting", "serving", "joining", "ended"}]
      BY DEF PixelInit
    <2> QED
      BY <2>1, <2>2, <2>3, <2>4 DEF PixelTypeOK
  <1>2. ClientsOwned /\ NotYetStarted /\ OneServer
    BY DEF PixelInit, ClientsOwned, NotYetStarted, OneServer
  <1>3. ~pixel.exit
    BY DEF PixelInit
  <1> QED
    BY <1>1, <1>2, <1>3 DEF PixelInv

(* The source.                                                             *)
LEMMA PixelStartInv == PixelInv /\ PixelStart => PixelInv'
  <1> SUFFICES ASSUME PixelInv, PixelStart PROVE PixelInv'
    OBVIOUS
  <1> DEFINE n == pixel.started + 1
  <1>1. /\ pixel'.started = n /\ pixel'.protocol = pixel.protocol /\ pixel'.exit = pixel.exit
        /\ pixel'.early = (pixel.early \/ \E s \in Servers : Serves(s))
        /\ painter' = painter /\ pixel_server' = [pixel_server EXCEPT ![n] = "starting"]
        /\ n \in Servers /\ pixel.started \in Nat /\ pixel_server[n] = "none"
    <2>1. pixel.started \in 0 .. PixelServers /\ pixel.started < PixelServers
      BY DEF PixelInv, PixelStart, PixelTypeOK
    <2>2. n \in Servers /\ pixel.started \in Nat /\ n > pixel.started
      BY <2>1, PixelBounds DEF Servers
    <2>3. pixel_server[n] = "none"
      BY <2>2 DEF PixelInv, NotYetStarted
    <2> QED
      BY <2>2, <2>3 DEF PixelInv, PixelStart, PixelTypeOK
  <1>2. PixelTypeOK'
    <2>1. pixel_server' \in [Servers -> {"none", "starting", "serving", "joining", "ended"}]
      BY <1>1 DEF PixelInv, PixelTypeOK
    <2>2. n \in 0 .. PixelServers
      BY <1>1 DEF Servers
    <2>3. pixel' = [pixel EXCEPT !.main = "running", !.stop = FALSE, !.started = n,
                                 !.early = pixel'.early]
      BY <1>1 DEF PixelStart
    <2>4. pixel'.early \in BOOLEAN
      BY <1>1 DEF PixelInv, PixelTypeOK
    <2> HIDE DEF n
    <2> QED
      BY <1>1, <2>1, <2>2, <2>3, <2>4 DEF PixelInv, PixelTypeOK
  <1>3. ClientsOwned'
    BY <1>1 DEF PixelInv, ClientsOwned, PixelTypeOK
  <1>4. NotYetStarted'
    <2>1. \A s \in Servers : s # n => pixel_server'[s] = pixel_server[s]
      BY <1>1 DEF PixelInv, PixelTypeOK
    <2>2. ASSUME NEW s \in Servers, s > n PROVE s # n /\ s > pixel.started
      BY <1>1, <2>2 DEF Servers
    <2> QED
      BY <1>1, <2>1, <2>2 DEF PixelInv, NotYetStarted
  <1>5. OneServer'
    <2>1. \A s \in Servers : pixel_server'[s] = IF s = n THEN "starting" ELSE pixel_server[s]
      BY <1>1 DEF PixelInv, PixelTypeOK
    <2>2. \A s, o \in Servers :
             pixel.protocol = "tcp" /\ Listens(s)' /\ Listens(o)' => s = o
      BY <2>1 DEF PixelInv, OneServer
    <2>3. \A s \in Servers : ~pixel'.early /\ Serves(s)' => s = n
      BY <1>1, <2>1
    <2> QED
      BY <1>1, <2>2, <2>3 DEF OneServer
  <1> QED
    BY <1>1, <1>2, <1>3, <1>4, <1>5 DEF PixelInv

LEMMA PixelOthersInv == PixelInv /\ (PixelFrame \/ PixelStop \/ PixelDelete) => PixelInv'
  <1> SUFFICES ASSUME PixelInv, PixelFrame \/ PixelStop \/ PixelDelete PROVE PixelInv'
    OBVIOUS
  <1>1. /\ pixel'.started = pixel.started /\ pixel'.protocol = pixel.protocol
        /\ pixel'.early = pixel.early /\ pixel'.exit = pixel.exit
        /\ UNCHANGED <<pixel_server, painter>>
    BY DEF PixelInv, PixelTypeOK, PixelFrame, PixelStop, PixelDelete
  <1>2. PixelTypeOK'
    <2>1. CASE PixelFrame
      BY <2>1 DEF PixelInv, PixelTypeOK, PixelFrame
    <2>2. CASE PixelStop
      BY <2>2 DEF PixelInv, PixelTypeOK, PixelStop
    <2>3. CASE PixelDelete
      BY <2>3 DEF PixelInv, PixelTypeOK, PixelDelete
    <2> QED
      BY <2>1, <2>2, <2>3
  <1>3. ClientsOwned'
    BY <1>1 DEF PixelInv, ClientsOwned
  <1> QED
    BY <1>1, <1>2, <1>3, PixelKept

(* The server threads.                                                     *)
LEMMA ServerListensInv ==
    ASSUME PixelInv, NEW s \in Servers, ServerListens(s) PROVE PixelInv'
  <1>1. CASE pixel.protocol = "tcp" /\ \E o \in Servers : Listens(o)
    <2>1. pixel' = [pixel EXCEPT !.exit = TRUE] /\ UNCHANGED <<pixel_server, painter>>
      BY <1>1 DEF ServerListens
    <2>2. PixelTypeOK'
      BY <2>1 DEF PixelInv, PixelTypeOK
    <2>3. pixel'.started = pixel.started /\ pixel'.protocol = pixel.protocol
            /\ pixel'.early = pixel.early
      BY <2>1 DEF PixelInv, PixelTypeOK
    <2>4. pixel.early
      BY <1>1 DEF ServerListens, PixelInv, OneServer
    <2> QED
      BY <2>1, <2>2, <2>3, <2>4 DEF PixelInv, ClientsOwned, NotYetStarted, OneServer
  <1>2. CASE ~(pixel.protocol = "tcp" /\ \E o \in Servers : Listens(o))
    <2>1. /\ pixel_server' = [pixel_server EXCEPT ![s] = "serving"] /\ pixel' = pixel
          /\ painter' = painter /\ pixel_server[s] = "starting"
      BY <1>2 DEF ServerListens
    <2>2. PixelTypeOK'
      BY <2>1 DEF PixelInv, PixelTypeOK
    <2>3. \A o \in Servers : pixel_server'[o] = IF o = s THEN "serving" ELSE pixel_server[o]
      BY <2>1 DEF PixelInv, PixelTypeOK
    <2>4. ClientsOwned' /\ NotYetStarted'
      BY <2>1, <2>3 DEF PixelInv, ClientsOwned, NotYetStarted
    <2>5. OneServer'
      BY <1>2, <2>1, <2>3 DEF PixelInv, OneServer
    <2> QED
      BY <2>1, <2>2, <2>4, <2>5 DEF PixelInv
  <1> QED
    BY <1>1, <1>2

LEMMA ServerAcceptsInv ==
    ASSUME PixelInv, NEW s \in Servers, ServerAccepts(s) PROVE PixelInv'
  <1> DEFINE n == pixel.made + 1
             record == [at |-> "serving", server |-> s, record |-> TRUE]
  <1>1. /\ pixel' = [pixel EXCEPT !.made = n] /\ n \in 0 .. PixelClients /\ n \in Painters
        /\ painter' = [painter EXCEPT ![n] = record] /\ pixel_server' = pixel_server /\ Listens(s)
    <2>1. pixel.made \in 0 .. PixelClients /\ pixel.made < PixelClients
      BY DEF ServerAccepts, PixelInv, PixelTypeOK
    <2>2. n \in 0 .. PixelClients /\ n \in Painters
      BY <2>1, PixelBounds DEF Painters
    <2> QED
      BY <2>2 DEF ServerAccepts
  <1> HIDE DEF n
  <1>2. /\ pixel'.started = pixel.started /\ pixel'.protocol = pixel.protocol
        /\ pixel'.early = pixel.early /\ pixel'.exit = pixel.exit
        /\ \A c \in Painters : painter'[c] = IF c = n THEN record ELSE painter[c]
    BY <1>1 DEF PixelInv, PixelTypeOK
  <1>3. PixelTypeOK'
    <2>1. record \in PainterStates
      BY DEF PainterStates
    <2> HIDE DEF record
    <2> QED
      BY <1>1, <2>1 DEF PixelInv, PixelTypeOK
  <1>4. ClientsOwned'
    BY <1>1, <1>2 DEF PixelInv, ClientsOwned
  <1> QED
    BY <1>1, <1>2, <1>3, <1>4, PixelKept

LEMMA ServerReapsInv ==
    ASSUME PixelInv, NEW s \in Servers, ServerReaps(s) PROVE PixelInv'
  <1>1. PICK c \in Painters : /\ painter[c].at = "ended"
                              /\ painter' = [painter EXCEPT ![c].record = FALSE]
    BY DEF ServerReaps
  <1>2. UNCHANGED <<pixel, pixel_server>>
    BY DEF ServerReaps
  <1>3. PixelTypeOK'
    BY <1>1, <1>2, PainterUpdate DEF PixelInv, PixelTypeOK
  <1>4. ClientsOwned'
    BY <1>1, <1>2 DEF PixelInv, ClientsOwned, PixelTypeOK, PainterStates
  <1> QED
    BY <1>2, <1>3, <1>4, PixelKept

LEMMA ServerStopsInv ==
    ASSUME PixelInv, NEW s \in Servers, ServerStops(s) PROVE PixelInv'
  <1>1. /\ pixel_server[s] = "serving" /\ pixel_server' = [pixel_server EXCEPT ![s] = "joining"]
        /\ UNCHANGED <<pixel, painter>>
    BY DEF ServerStops
  <1>2. PixelTypeOK'
    BY <1>1 DEF PixelInv, PixelTypeOK
  <1>3. \A o \in Servers : pixel_server'[o] = IF o = s THEN "joining" ELSE pixel_server[o]
    BY <1>1 DEF PixelInv, PixelTypeOK
  <1>4. ClientsOwned'
    BY <1>1, <1>3 DEF PixelInv, ClientsOwned
  <1> QED
    BY <1>1, <1>2, <1>3, <1>4, PixelKept

(* A server ends when all its records are gone: then no client serves.     *)
LEMMA ServerJoinsInv ==
    ASSUME PixelInv, NEW s \in Servers, ServerJoins(s) PROVE PixelInv'
  <1>1. CASE Records(s) = {}
    <2>1. /\ pixel_server[s] = "joining" /\ pixel_server' = [pixel_server EXCEPT ![s] = "ended"]
          /\ UNCHANGED <<pixel, painter>>
      BY <1>1 DEF ServerJoins
    <2>2. PixelTypeOK'
      BY <2>1 DEF PixelInv, PixelTypeOK
    <2>3. \A o \in Servers : pixel_server'[o] = IF o = s THEN "ended" ELSE pixel_server[o]
      BY <2>1 DEF PixelInv, PixelTypeOK
    <2>4. ClientsOwned'
      BY <1>1, <2>1, <2>3 DEF PixelInv, ClientsOwned, Records
    <2> QED
      BY <2>1, <2>2, <2>3, <2>4, PixelKept
  <1>2. CASE /\ ~pixel.stop /\ pixel' = [pixel EXCEPT !.stop = TRUE]
             /\ UNCHANGED <<pixel_server, painter>>
    <2>1. PixelTypeOK'
      BY <1>2 DEF PixelInv, PixelTypeOK
    <2>2. /\ pixel'.started = pixel.started /\ pixel'.protocol = pixel.protocol
          /\ pixel'.early = pixel.early /\ pixel'.exit = pixel.exit
      BY <1>2 DEF PixelInv, PixelTypeOK
    <2>3. ClientsOwned'
      BY <1>2 DEF PixelInv, ClientsOwned
    <2> QED
      BY <1>2, <2>1, <2>2, <2>3, PixelKept
  <1>3. CASE /\ \E c \in Records(s) : /\ painter[c].at = "ended"
                                      /\ painter' = [painter EXCEPT ![c].record = FALSE]
             /\ UNCHANGED <<pixel, pixel_server>>
    <2>1. PICK c \in Painters : /\ painter[c].at = "ended"
                                /\ painter' = [painter EXCEPT ![c].record = FALSE]
      BY <1>3 DEF Records
    <2>2. PixelTypeOK'
      BY <1>3, <2>1, PainterUpdate DEF PixelInv, PixelTypeOK
    <2>3. ClientsOwned'
      BY <1>3, <2>1 DEF PixelInv, ClientsOwned, PixelTypeOK, PainterStates
    <2> QED
      BY <1>3, <2>2, <2>3, PixelKept
  <1> QED
    BY <1>1, <1>2, <1>3 DEF ServerJoins

LEMMA PainterEndsInv ==
    ASSUME PixelInv, NEW c \in Painters, PainterEnds(c) PROVE PixelInv'
  <1>1. PixelTypeOK'
    BY DEF PixelInv, PixelTypeOK, PainterStates, PainterEnds
  <1>2. ClientsOwned'
    BY DEF PixelInv, PixelTypeOK, PainterStates, PainterEnds, ClientsOwned
  <1> QED
    BY <1>1, <1>2, PixelKept DEF PainterEnds

-----------------------------------------------------------------------------
(* The inductive invariant, of every reachable state.                      *)
THEOREM PixelInvHolds == PixelSpec => []PixelInv
  <1>1. PixelInv /\ [PixelNext]_pixelVars => PixelInv'
    <2>1. PixelInv /\ UNCHANGED pixelVars => PixelInv'
      BY DEF PixelInv, pixelVars, PixelTypeOK, ClientsOwned, NotYetStarted, OneServer
    <2> QED
      BY <2>1, PixelStartInv, PixelOthersInv, ServerListensInv, ServerAcceptsInv,
         ServerReapsInv, ServerStopsInv, ServerJoinsInv, PainterEndsInv DEF PixelNext, PixelThreads
  <1> QED
    BY <1>1, PixelInvInit, PTL DEF PixelSpec

(* No client of the pixelflood source outlives its record or its server,   *)
(* and the port is found in use only after an early start.                 *)
THEOREM PixelThreadsAreOwned == PixelSpec => []PixelThreadsOwned
  <1>1. PixelInv => PixelThreadsOwned
    <2> SUFFICES ASSUME PixelInv PROVE PixelThreadsOwned
      OBVIOUS
    <2> DEFINE listening == {s \in Servers : pixel_server[s] \in {"serving", "joining"}}
    <2>1. ASSUME pixel.protocol = "tcp" PROVE Cardinality(listening) <= 1
      <3>1. CASE listening = {}
        <4> HIDE DEF listening
        <4> QED
          BY <3>1, FS_EmptySet
      <3>2. CASE listening # {}
        <4>1. PICK s \in listening : TRUE
          BY <3>2
        <4>2. \A o \in listening : o = s
          BY <2>1, <4>1 DEF PixelInv, OneServer
        <4>3. listening = {s}
          BY <4>2
        <4> HIDE DEF listening
        <4> QED
          BY <4>3, FS_Singleton
      <3> QED
        BY <3>1, <3>2
    <2> QED
      BY <2>1 DEF PixelInv, PixelThreadsOwned, ClientsOwned
  <1> QED
    BY <1>1, PixelInvHolds, PTL

-----------------------------------------------------------------------------
(***************************************************************************)
(* LcdServer: the lock of the screens, and the screens of clients that are *)
(* gone, for any number of clients, of screens and of widgets.             *)
(*                                                                         *)
(* A client that goes has no screens before the place where it is, and no  *)
(* other changes them meanwhile, for it has the lock; a thread that keeps  *)
(* it for ever does so because of the screens, which stay as they are.     *)
(***************************************************************************)

OwnSeq(s) == s \in Seq({s[i] : i \in DOMAIN s})

LcdStates ==
    [lock : LcdClients \cup {"free"}, threw : SUBSET LcdClients, stop : BOOLEAN,
     listener : {"poll", "accept", "join", "off"}, cur : Int, lost : BOOLEAN]
LcdPlaces == {"none", "idle", "deaf", "locking", "failing", "replying", "leaving", "removing",
              "spinning", "terminated"}
LcdThreads == [LcdClients -> [at : LcdPlaces, i : Nat \ {0}, moved : BOOLEAN]]

\* Of a screen, its owner and its id matter.
ScreensOK ==
    /\ OwnSeq(screens)
    /\ \A i \in DOMAIN screens :
          /\ screens[i] = [fd |-> screens[i].fd, id |-> screens[i].id,
                           widgets |-> screens[i].widgets]
          /\ screens[i].fd \in LcdClients

LcdTypeOK == lcd \in LcdStates /\ lcd_client \in LcdThreads /\ ScreensOK

Gone == {"none", "terminated"}
Holding == {"removing", "spinning"}

\* Who threw keeps the lock, and gets it no second time.
LockOwned ==
    \A c \in LcdClients :
       /\ lcd.lock = c <=> lcd_client[c].at \in Holding \/ c \in lcd.threw
       /\ lcd_client[c].at \in Holding => c \notin lcd.threw

SpinsFor ==
    \A c \in LcdClients : LcdAt(c, "spinning") =>
       \/ \E id \in LcdScreens : ScreenLoops(id)
       \/ \E id \in LcdScreens, w \in LcdWidgets : WidgetLoops(id, w)
       \/ Behind(c)

\* A client that goes has no screens among those it has looked at already.
ScreensLeft ==
    /\ \A c \in LcdClients : lcd_client[c].at \notin Holding => lcd_client[c].i = 1
    /\ ~lcd.lost =>
          /\ \A i \in DOMAIN screens : lcd_client[screens[i].fd].at \notin Gone
          /\ \A c \in LcdClients : LcdAt(c, "removing") =>
                \A j \in DOMAIN screens : j < lcd_client[c].i => screens[j].fd # c

AllJoined == lcd.listener = "off" => \A c \in LcdClients : lcd_client[c].at \in Gone

LcdInv == LcdTypeOK /\ LockOwned /\ SpinsFor /\ ScreensLeft /\ AllJoined

-----------------------------------------------------------------------------

\* A sequence over any set is one over its own elements.
LEMMA OwnElements ==
    ASSUME NEW S, NEW s \in Seq(S)
    PROVE  OwnSeq(s)
<1> DEFINE T == {s[i] : i \in DOMAIN s}
<1>1. PICK n \in Nat : s \in [1..n -> S]
    BY SeqDef
<1>2. s \in [1..n -> T]
    BY <1>1
<1>3. s \in Seq(T)
    BY <1>2, SeqDef
<1> QED
    BY <1>3 DEF OwnSeq

LEMMA SeqShape ==
    ASSUME NEW s, OwnSeq(s)
    PROVE  Len(s) \in Nat /\ DOMAIN s = 1..Len(s) /\ (s # <<>> => Len(s) > 0 /\ Head(s) = s[1])
BY DEF OwnSeq

LEMMA TailShape ==
    ASSUME NEW s, OwnSeq(s), s # <<>>
    PROVE  /\ OwnSeq(Tail(s)) /\ DOMAIN Tail(s) = 1..(Len(s) - 1)
           /\ \A i \in 1..(Len(s) - 1) : Tail(s)[i] = s[i + 1] /\ i + 1 \in DOMAIN s
<1> DEFINE T == {s[i] : i \in DOMAIN s}
<1>1. s \in Seq(T)
    BY DEF OwnSeq
<1> HIDE DEF T
<1>2. /\ Tail(s) \in Seq(T) /\ Len(Tail(s)) = Len(s) - 1 /\ Len(s) \in Nat /\ DOMAIN s = 1..Len(s)
      /\ \A i \in 1..(Len(s) - 1) : Tail(s)[i] = s[i + 1]
    BY <1>1
<1>3. DOMAIN Tail(s) = 1..(Len(s) - 1) /\ \A i \in 1..(Len(s) - 1) : i + 1 \in DOMAIN s
    BY <1>2
<1>4. OwnSeq(Tail(s))
    BY <1>2, OwnElements
<1> QED
    BY <1>2, <1>3, <1>4

LEMMA AppendShape ==
    ASSUME NEW s, OwnSeq(s), NEW e
    PROVE  /\ OwnSeq(Append(s, e)) /\ DOMAIN Append(s, e) = 1..(Len(s) + 1)
           /\ \A i \in 1..(Len(s) + 1) : Append(s, e)[i] = IF i \in DOMAIN s THEN s[i] ELSE e
<1> DEFINE T == {s[i] : i \in DOMAIN s} \cup {e}
<1>1. s \in Seq(T) /\ e \in T
    <2>1. PICK n \in Nat : s \in [1..n -> {s[i] : i \in DOMAIN s}]
        BY SeqDef DEF OwnSeq
    <2>2. s \in [1..n -> T]
        BY <2>1
    <2> QED
        BY <2>2, SeqDef
<1> HIDE DEF T
<1>2. /\ Append(s, e) \in Seq(T) /\ Len(Append(s, e)) = Len(s) + 1 /\ Len(s) \in Nat
      /\ DOMAIN s = 1..Len(s)
      /\ \A i \in 1..(Len(s) + 1) : Append(s, e)[i] = IF i <= Len(s) THEN s[i] ELSE e
    BY <1>1
<1>3. DOMAIN Append(s, e) = 1..(Len(s) + 1)
    BY <1>2
<1>4. \A i \in 1..(Len(s) + 1) : i \in DOMAIN s <=> i <= Len(s)
    BY <1>2
<1> QED
    BY <1>2, <1>3, <1>4, OwnElements

LEMMA ReplacedShape ==
    ASSUME NEW s, OwnSeq(s), NEW k, NEW e
    PROVE  LET t == [s EXCEPT ![k] = e]
           IN /\ OwnSeq(t) /\ DOMAIN t = DOMAIN s
              /\ \A i \in DOMAIN s : t[i] = IF i = k THEN e ELSE s[i]
<1> DEFINE t == [s EXCEPT ![k] = e]
           T == {s[i] : i \in DOMAIN s} \cup {e}
<1>1. PICK n \in Nat : s \in [1..n -> {s[i] : i \in DOMAIN s}]
    BY SeqDef DEF OwnSeq
<1>2. /\ DOMAIN t = DOMAIN s
      /\ \A i \in DOMAIN s : t[i] = IF i = k THEN e ELSE s[i]
    BY <1>1
<1>3. t \in [1..n -> T]
    BY <1>1
<1>4. t \in Seq(T)
    BY <1>3, SeqDef
<1>5. OwnSeq(t)
    BY <1>4, OwnElements
<1> QED
    BY <1>2, <1>5

-----------------------------------------------------------------------------

\* The thread of c goes to a place, and no other does.
Moves(c, to) ==
    /\ lcd_client' \in LcdThreads
    /\ lcd_client'[c].at = to /\ lcd_client'[c].i = lcd_client[c].i
    /\ \A d \in LcdClients \ {c} :
          lcd_client'[d].at = lcd_client[d].at /\ lcd_client'[d].i = lcd_client[d].i

LEMMA ChangedKeeps ==
    ASSUME NEW clients \in LcdThreads
    PROVE  /\ Changed(clients) \in LcdThreads
           /\ \A d \in LcdClients :
                 Changed(clients)[d].at = clients[d].at /\ Changed(clients)[d].i = clients[d].i
BY DEF Changed, LcdThreads

\* One field of one thread is set.
AtPlace(g, c, n) == [g EXCEPT ![c].i = n]
Unmoved(g, c) == [g EXCEPT ![c].moved = FALSE]

LEMMA FieldSet ==
    ASSUME NEW g \in LcdThreads, NEW c \in LcdClients, NEW n \in Nat \ {0}
    PROVE  /\ AtPlace(g, c, n) \in LcdThreads /\ Unmoved(g, c) \in LcdThreads
           /\ AtPlace(g, c, n)[c].at = g[c].at /\ AtPlace(g, c, n)[c].i = n
           /\ Unmoved(g, c)[c].at = g[c].at /\ Unmoved(g, c)[c].i = g[c].i
           /\ \A d \in LcdClients \ {c} : AtPlace(g, c, n)[d] = g[d] /\ Unmoved(g, c)[d] = g[d]
<1>1. AtPlace(g, c, n) \in LcdThreads /\ Unmoved(g, c) \in LcdThreads
    BY DEF AtPlace, Unmoved, LcdThreads
<1>2. /\ AtPlace(g, c, n)[c].at = g[c].at /\ AtPlace(g, c, n)[c].i = n
      /\ Unmoved(g, c)[c].at = g[c].at /\ Unmoved(g, c)[c].i = g[c].i
    BY DEF AtPlace, Unmoved, LcdThreads
<1>3. \A d \in LcdClients \ {c} : AtPlace(g, c, n)[d] = g[d] /\ Unmoved(g, c)[d] = g[d]
    BY DEF AtPlace, Unmoved, LcdThreads
<1> QED
    BY <1>1, <1>2, <1>3

LEMMA GoShape ==
    ASSUME LcdTypeOK, NEW c \in LcdClients, NEW to \in LcdPlaces
    PROVE  /\ LcdGo(c, to) \in LcdThreads
           /\ LcdGo(c, to)[c].at = to /\ LcdGo(c, to)[c].i = lcd_client[c].i
           /\ \A d \in LcdClients \ {c} : LcdGo(c, to)[d] = lcd_client[d]
<1>1. LcdGo(c, to) \in LcdThreads
    BY DEF LcdTypeOK, LcdThreads, LcdGo
<1>2. /\ LcdGo(c, to)[c].at = to /\ LcdGo(c, to)[c].i = lcd_client[c].i
      /\ \A d \in LcdClients \ {c} : LcdGo(c, to)[d] = lcd_client[d]
    BY DEF LcdTypeOK, LcdThreads, LcdGo
<1> QED
    BY <1>1, <1>2

LEMMA GoMoves ==
    ASSUME LcdTypeOK, NEW c \in LcdClients, NEW to \in LcdPlaces,
           lcd_client' = LcdGo(c, to) \/ lcd_client' = Changed(LcdGo(c, to))
    PROVE  Moves(c, to)
BY GoShape, ChangedKeeps DEF Moves

\* While the lock is free, no thread has it; while one has, it is alone.
LEMMA NobodyHolds ==
    ASSUME LcdInv, LcdFree
    PROVE  /\ lcd.threw = {} /\ \A d \in LcdClients : lcd_client[d].at \notin Holding
BY LcdAssumption DEF LcdInv, LcdFree, LockOwned, LcdTypeOK, LcdStates

LEMMA HolderAlone ==
    ASSUME LcdInv, NEW c \in LcdClients, lcd_client[c].at \in Holding
    PROVE  /\ lcd.lock = c /\ lcd.threw = {}
           /\ \A d \in LcdClients \ {c} : lcd_client[d].at \notin Holding
BY DEF LcdInv, LockOwned, LcdTypeOK, LcdStates

\* The screens belong to who had some, or to c.
OwnedAsBefore(c) ==
    \A i \in DOMAIN screens' :
       screens'[i].fd = c \/ \E j \in DOMAIN screens : screens[j].fd = screens'[i].fd

LEMMA WorkKeeps ==
    ASSUME LcdInv, NEW c \in LcdClients, NEW to \in LcdPlaces \ (Gone \cup Holding), Moves(c, to),
           lcd_client[c].at \notin Gone \cup Holding, ScreensOK', OwnedAsBefore(c), lcd' = lcd,
           LcdFree \/ screens' = screens
    PROVE  LcdInv'
<1>1. LcdTypeOK'
    BY DEF LcdInv, LcdTypeOK, Moves
<1>2. LockOwned'
    BY DEF LcdInv, LockOwned, Moves
<1>3. SpinsFor'
    <2>1. CASE LcdFree
        BY <2>1, NobodyHolds DEF Moves, SpinsFor, LcdAt, Holding
    <2>2. CASE screens' = screens
        <3>1. \A d \in LcdClients : LcdAt(d, "spinning")' => LcdAt(d, "spinning")
            BY DEF Moves, LcdAt, Holding
        <3> QED
            BY <2>2, <3>1 DEF LcdInv, SpinsFor, ScreenLoops, WidgetLoops, Behind
    <2> QED
        BY <2>1, <2>2
<1>4. ScreensLeft'
    <2>1. \A d \in LcdClients : lcd_client'[d].at \notin Holding => lcd_client'[d].i = 1
        BY DEF LcdInv, ScreensLeft, Moves
    <2>2. ASSUME ~lcd.lost, NEW i \in DOMAIN screens'
          PROVE  lcd_client'[screens'[i].fd].at \notin Gone
        BY <2>2 DEF LcdInv, ScreensLeft, LcdTypeOK, ScreensOK, OwnedAsBefore, Moves
    <2>3. ASSUME ~lcd.lost, NEW d \in LcdClients, lcd_client'[d].at = "removing",
                 NEW j \in DOMAIN screens', j < lcd_client'[d].i
          PROVE  screens'[j].fd # d
        <3>1. d # c /\ lcd_client[d].at = "removing" /\ lcd_client'[d].i = lcd_client[d].i
            BY <2>3 DEF Moves, Holding
        <3>2. screens' = screens
            BY <3>1, NobodyHolds DEF Holding
        <3> QED
            BY <2>3, <3>1, <3>2 DEF LcdInv, ScreensLeft, LcdAt
    <2> QED
        BY <2>1, <2>2, <2>3 DEF ScreensLeft, LcdAt
<1>5. AllJoined'
    BY DEF LcdInv, AllJoined, Moves
<1> QED
    BY <1>1, <1>2, <1>3, <1>4, <1>5 DEF LcdInv

\* A step that leaves the screens and the lock alone.
LEMMA QuietKeeps ==
    ASSUME LcdInv, NEW c \in LcdClients, NEW to \in LcdPlaces \ (Gone \cup Holding), Moves(c, to),
           lcd_client[c].at \notin Gone \cup Holding, UNCHANGED <<screens, lcd>>
    PROVE  LcdInv'
<1>1. ScreensOK' /\ OwnedAsBefore(c)
    BY DEF LcdInv, LcdTypeOK, ScreensOK, OwnSeq, OwnedAsBefore
<1> QED
    BY <1>1, WorkKeeps

LEMMA ThrowKeeps ==
    ASSUME LcdInv, LcdFree, NEW c \in LcdClients, LcdAt(c, "locking"), LcdThrow(c)
    PROVE  LcdInv'
<1>1. Moves(c, "idle")
    BY GoMoves DEF LcdInv, LcdThrow, Succeed, LcdPlaces
<1>2. /\ lcd' \in LcdStates /\ lcd'.lock = c /\ lcd'.threw = lcd.threw \cup {c}
      /\ lcd'.lost = lcd.lost /\ lcd'.listener = lcd.listener /\ screens' = screens
    BY DEF LcdThrow, LcdInv, LcdTypeOK, LcdStates
<1>3. LcdTypeOK'
    BY <1>1, <1>2 DEF LcdInv, LcdTypeOK, Moves, ScreensOK, OwnSeq
<1>4. LockOwned' /\ SpinsFor'
    BY <1>1, <1>2, NobodyHolds DEF Moves, LockOwned, SpinsFor, LcdAt, Holding
<1>5. ScreensLeft'
    BY <1>1, <1>2, NobodyHolds
    DEF LcdInv, ScreensLeft, Moves, LcdAt, Holding, Gone, LcdTypeOK, ScreensOK
<1>6. AllJoined'
    BY <1>1, <1>2 DEF LcdInv, AllJoined, Moves, Gone, LcdAt
<1> QED
    BY <1>3, <1>4, <1>5, <1>6 DEF LcdInv

\* A search that does not end, of a command or of the end of a connection.
LEMMA SpinKeeps ==
    ASSUME LcdInv, NEW c \in LcdClients, Spin(c),
           (LcdFree /\ LcdAt(c, "locking")) \/ LcdAt(c, "removing"),
           \/ \E id \in LcdScreens : ScreenLoops(id)
           \/ \E id \in LcdScreens, w \in LcdWidgets : WidgetLoops(id, w)
           \/ Behind(c)
    PROVE  LcdInv'
<1>1. Moves(c, "spinning")
    BY GoMoves DEF LcdInv, Spin, LcdPlaces
<1>2. /\ lcd' \in LcdStates /\ lcd'.lock = c /\ lcd'.threw = lcd.threw
      /\ lcd'.lost = lcd.lost /\ lcd'.listener = lcd.listener /\ screens' = screens
    BY DEF Spin, LcdInv, LcdTypeOK, LcdStates
<1>3. lcd.threw = {} /\ \A d \in LcdClients \ {c} : lcd_client[d].at \notin Holding
    BY NobodyHolds, HolderAlone DEF LcdAt, Holding
<1>4. LcdTypeOK'
    BY <1>1, <1>2 DEF LcdInv, LcdTypeOK, Moves, ScreensOK, OwnSeq
<1>5. LockOwned'
    BY <1>1, <1>2, <1>3 DEF Moves, LockOwned, Holding
<1>6. SpinsFor'
    <2>1. \A d \in LcdClients : LcdAt(d, "spinning")' => d = c
        BY <1>1, <1>3 DEF Moves, LcdAt, Holding
    <2> QED
        BY <1>2, <2>1 DEF SpinsFor, ScreenLoops, WidgetLoops, Behind
<1>7. ScreensLeft'
    BY <1>1, <1>2, <1>3
    DEF LcdInv, ScreensLeft, Moves, LcdAt, Holding, Gone, LcdTypeOK, ScreensOK
<1>8. AllJoined'
    BY <1>1, <1>2 DEF LcdInv, AllJoined, Moves, Gone, LcdAt
<1> QED
    BY <1>4, <1>5, <1>6, <1>7, <1>8 DEF LcdInv

LEMMA CommandKeeps ==
    ASSUME LcdInv, NEW c \in LcdClients, LcdCommand(c)
    PROVE  LcdInv'
<1>0. LcdFree /\ LcdAt(c, "locking") /\ lcd_client[c].at \notin Gone \cup Holding
    BY DEF LcdCommand, LcdAt, Gone, Holding
<1>1. LcdTypeOK /\ ScreensOK /\ OwnSeq(screens)
    BY DEF LcdInv, LcdTypeOK, ScreensOK
<1>2. \A to \in {"idle", "deaf", "failing", "replying"} :
         to \in LcdPlaces \ (Gone \cup Holding)
    BY DEF LcdPlaces, Gone, Holding
<1>3. ASSUME NEW found \in BOOLEAN, LcdLookup(c, found)
      PROVE  LcdInv'
    <2>1. CASE LcdThrow(c)
        BY <1>0, <2>1, ThrowKeeps
    <2>2. CASE UNCHANGED <<screens, lcd>> /\ (Succeed(c) \/ Fail(c))
        <3>1. Moves(c, "idle") \/ Moves(c, "deaf")
            BY <1>1, <1>2, <2>2, GoMoves DEF Succeed, Fail
        <3> QED
            BY <1>0, <1>2, <2>2, <3>1, QuietKeeps
    <2> QED
        BY <1>3, <2>1, <2>2 DEF LcdLookup
<1>4. ASSUME ScreenAdd(c)
      PROVE  LcdInv'
    <2>1. PICK id \in LcdScreens :
             screens' = Append(screens, [fd |-> c, id |-> id, widgets |-> <<>>])
        BY <1>4 DEF ScreenAdd
    <2> DEFINE e == [fd |-> c, id |-> id, widgets |-> <<>>]
    <2>2. e = [fd |-> e.fd, id |-> e.id, widgets |-> e.widgets] /\ e.fd = c
        OBVIOUS
    <2> HIDE DEF e
    <2>3. screens' = Append(screens, e)
        BY <2>1 DEF e
    <2>4. /\ OwnSeq(screens')
          /\ \A i \in DOMAIN screens' : screens'[i] = e \/ (i \in DOMAIN screens /\ screens'[i] = screens[i])
        BY <1>1, <2>3, AppendShape
    <2>5. ScreensOK' /\ OwnedAsBefore(c)
        BY <1>1, <2>2, <2>4 DEF ScreensOK, OwnedAsBefore
    <2>6. Moves(c, "idle") /\ lcd' = lcd
        BY <1>1, <1>2, <1>4, GoMoves DEF ScreenAdd
    <2> QED
        BY <1>0, <1>2, <2>5, <2>6, WorkKeeps
<1>5. ASSUME ScreenDel(c)
      PROVE  LcdInv'
    <2>1. PICK id \in LcdScreens :
             \/ ScreenLoops(id) /\ Spin(c)
             \/ /\ screens' = IF screens = <<>> THEN screens ELSE Tail(screens)
                /\ lcd_client' = Changed(LcdGo(c, "idle"))
                /\ UNCHANGED lcd
        BY <1>5 DEF ScreenDel
    <2>2. CASE ScreenLoops(id) /\ Spin(c)
        BY <1>0, <2>2, SpinKeeps
    <2>3. CASE ~(ScreenLoops(id) /\ Spin(c))
        <3>1. /\ OwnSeq(screens')
              /\ \A i \in DOMAIN screens' : \E j \in DOMAIN screens : screens'[i] = screens[j]
            <4>1. CASE screens = <<>>
                BY <1>1, <2>1, <2>3, <4>1
            <4>2. CASE screens # <<>>
                BY <1>1, <2>1, <2>3, <4>2, TailShape
            <4> QED
                BY <4>1, <4>2
        <3>2. ScreensOK' /\ OwnedAsBefore(c)
            BY <1>1, <3>1 DEF ScreensOK, OwnedAsBefore
        <3>3. Moves(c, "idle") /\ lcd' = lcd
            BY <1>1, <1>2, <2>1, <2>3, GoMoves
        <3> QED
            BY <1>0, <1>2, <3>2, <3>3, WorkKeeps
    <2> QED
        BY <2>2, <2>3
\* The widgets of the screen at k are others.
<1>6. ASSUME NEW k, NEW ws, NEW to \in {"idle", "failing", "replying"},
             screens' = [screens EXCEPT ![k].widgets = ws], lcd_client' = LcdGo(c, to), lcd' = lcd
      PROVE  LcdInv'
    <2> DEFINE e == [screens[k] EXCEPT !.widgets = ws]
    <2>1. k \in DOMAIN screens => /\ e = [fd |-> e.fd, id |-> e.id, widgets |-> e.widgets]
                                  /\ e.fd = screens[k].fd
        BY <1>1 DEF ScreensOK
    <2>2. screens' = [screens EXCEPT ![k] = e]
        BY <1>6
    <2> HIDE DEF e
    <2>3. /\ OwnSeq(screens') /\ DOMAIN screens' = DOMAIN screens
          /\ \A i \in DOMAIN screens : screens'[i] = IF i = k THEN e ELSE screens[i]
        BY <1>1, <2>2, ReplacedShape
    <2>4. ScreensOK' /\ OwnedAsBefore(c)
        BY <1>1, <2>1, <2>3 DEF ScreensOK, OwnedAsBefore
    <2>5. Moves(c, to)
        BY <1>1, <1>2, <1>6, GoMoves
    <2> QED
        BY <1>0, <1>2, <1>6, <2>4, <2>5, WorkKeeps
<1>7. ASSUME NEW to \in {"idle", "failing", "replying"},
             screens' = screens, lcd_client' = LcdGo(c, to), lcd' = lcd
      PROVE  LcdInv'
    <2>1. Moves(c, to)
        BY <1>1, <1>2, <1>7, GoMoves
    <2> QED
        BY <1>0, <1>2, <1>7, <2>1, QuietKeeps
<1>8. ASSUME WidgetDel(c)
      PROVE  LcdInv'
    <2>1. PICK id \in LcdScreens, w \in LcdWidgets :
             \/ WidgetLoops(id, w) /\ Spin(c)
             \/ /\ screens' = IF screens = <<>> THEN screens
                              ELSE [screens EXCEPT ![1].widgets = RemoveFirst(@, w)]
                /\ Succeed(c) /\ UNCHANGED lcd
        BY <1>8 DEF WidgetDel
    <2>2. CASE WidgetLoops(id, w) /\ Spin(c)
        BY <1>0, <2>2, SpinKeeps
    <2>3. CASE ~(WidgetLoops(id, w) /\ Spin(c)) /\ screens = <<>>
        BY <1>7, <2>1, <2>3 DEF Succeed
    <2>4. CASE ~(WidgetLoops(id, w) /\ Spin(c)) /\ screens # <<>>
        <3> DEFINE ws == RemoveFirst(screens[1].widgets, w)
        <3>1. screens' = [screens EXCEPT ![1].widgets = ws]
            BY <2>1, <2>4
        <3> HIDE DEF ws
        <3> QED
            BY <1>6, <2>1, <2>4, <3>1 DEF Succeed
    <2> QED
        BY <2>2, <2>3, <2>4
<1>9. ASSUME WidgetAdd(c)
      PROVE  LcdInv'
    <2>1. PICK id \in LcdScreens, w \in LcdWidgets :
             /\ screens' = IF Position(id) = 0 THEN screens
                           ELSE [screens EXCEPT ![Position(id)].widgets = Append(@, w)]
             /\ lcd_client' = LcdGo(c, IF Position(id) = 0 THEN "failing" ELSE "replying")
             /\ UNCHANGED lcd
        BY <1>9 DEF WidgetAdd
    <2>2. CASE Position(id) = 0
        BY <1>7, <2>1, <2>2
    <2>3. CASE Position(id) # 0
        <3> DEFINE k == Position(id)
                   ws == Append(screens[k].widgets, w)
        <3>1. screens' = [screens EXCEPT ![k].widgets = ws] /\ lcd_client' = LcdGo(c, "replying")
            BY <2>1, <2>3
        <3> HIDE DEF k, ws
        <3> QED
            BY <1>6, <2>1, <3>1
    <2> QED
        BY <2>2, <2>3
<1>10. ASSUME ScreenSet(c)
       PROVE  LcdInv'
    BY <1>3, <1>10 DEF ScreenSet
<1>11. ASSUME WidgetSet(c)
       PROVE  LcdInv'
    <2>1. PICK id \in LcdScreens, w \in LcdWidgets :
             LcdLookup(c, WidgetOf(id, w)) \/ (Fail(c) /\ UNCHANGED <<screens, lcd>>)
        BY <1>11 DEF WidgetSet
    <2>2. WidgetOf(id, w) \in BOOLEAN
        BY DEF WidgetOf
    <2>3. CASE LcdLookup(c, WidgetOf(id, w))
        BY <1>3, <2>2, <2>3
    <2>4. CASE Fail(c) /\ UNCHANGED <<screens, lcd>>
        <3>1. Moves(c, "deaf")
            BY <1>1, <1>2, <2>4, GoMoves DEF Fail
        <3> QED
            BY <1>0, <1>2, <2>4, <3>1, QuietKeeps
    <2> QED
        BY <2>1, <2>3, <2>4
<1> QED
    BY <1>4, <1>5, <1>8, <1>9, <1>10, <1>11 DEF LcdCommand

\* What a connection does without the lock.
LEMMA TalkKeeps ==
    ASSUME LcdInv, NEW c \in LcdClients,
           LcdRequest(c) \/ LcdOther(c) \/ WidgetReply(c) \/ LcdHangUp(c)
    PROVE  LcdInv'
<1>1. LcdTypeOK
    BY DEF LcdInv
<1>2. lcd_client[c].at \notin Gone \cup Holding /\ UNCHANGED <<screens, lcd>>
    BY DEF LcdRequest, LcdOther, WidgetReply, LcdHangUp, LcdAt, Gone, Holding
<1>3. \A to \in {"idle", "deaf", "locking", "leaving"} : to \in LcdPlaces \ (Gone \cup Holding)
    BY DEF LcdPlaces, Gone, Holding
<1>4. \E to \in {"idle", "deaf", "locking", "leaving"} : Moves(c, to)
    <2>1. CASE LcdRequest(c) \/ LcdOther(c) \/ LcdHangUp(c)
        <3>1. \E to \in {"idle", "deaf", "locking", "leaving"} : lcd_client' = LcdGo(c, to)
            BY <2>1 DEF LcdRequest, LcdOther, LcdHangUp, Succeed, Fail
        <3> QED
            BY <1>1, <1>3, <3>1, GoMoves
    <2>2. CASE WidgetReply(c)
        <3>1. PICK to \in {"idle", "deaf"} :
                 lcd_client' = [LcdGo(c, to) EXCEPT ![c].moved = FALSE]
            BY <2>2 DEF WidgetReply
        <3>2. to \in LcdPlaces
            BY DEF LcdPlaces
        <3> DEFINE g == LcdGo(c, to)
        <3>3. /\ g \in LcdThreads /\ g[c].at = to /\ g[c].i = lcd_client[c].i
              /\ \A d \in LcdClients \ {c} : g[d] = lcd_client[d]
            BY <1>1, <3>2, GoShape
        <3>4. lcd_client' = Unmoved(g, c)
            BY <3>1 DEF Unmoved
        <3> HIDE DEF g
        <3>5. Moves(c, to)
            BY <3>3, <3>4, FieldSet DEF Moves
        <3> QED
            BY <3>5
    <2> QED
        BY <2>1, <2>2
<1> QED
    BY <1>2, <1>3, <1>4, QuietKeeps

LEMMA LeaveKeeps ==
    ASSUME LcdInv, NEW c \in LcdClients, LcdLeave(c)
    PROVE  LcdInv'
<1>1. LcdFree /\ LcdAt(c, "leaving") /\ Moves(c, "removing")
    BY GoMoves DEF LcdInv, LcdLeave, LcdPlaces
<1>2. /\ lcd' \in LcdStates /\ lcd'.lock = c /\ lcd'.threw = lcd.threw
      /\ lcd'.lost = lcd.lost /\ lcd'.listener = lcd.listener /\ screens' = screens
    BY DEF LcdLeave, LcdInv, LcdTypeOK, LcdStates
<1>3. lcd.threw = {} /\ \A d \in LcdClients : lcd_client[d].at \notin Holding
    BY <1>1, NobodyHolds
<1>4. LcdTypeOK'
    BY <1>1, <1>2 DEF LcdInv, LcdTypeOK, Moves, ScreensOK, OwnSeq
<1>5. LockOwned' /\ SpinsFor'
    BY <1>1, <1>2, <1>3 DEF Moves, LockOwned, SpinsFor, LcdAt, Holding
<1>6. lcd_client'[c].i = 1
    BY <1>1, <1>3 DEF LcdInv, ScreensLeft, Moves
<1>7. ScreensLeft'
    <2>1. \A d \in LcdClients : lcd_client'[d].at \notin Holding => lcd_client'[d].i = 1
        BY <1>1, <1>6 DEF LcdInv, ScreensLeft, Moves
    <2>2. ~lcd.lost => \A i \in DOMAIN screens : lcd_client'[screens[i].fd].at \notin Gone
        BY <1>1 DEF LcdInv, ScreensLeft, LcdTypeOK, ScreensOK, Moves, Gone
    <2>3. \A d \in LcdClients : lcd_client'[d].at = "removing" => d = c
        BY <1>1, <1>3 DEF Moves, Holding
    <2>4. \A j \in DOMAIN screens : ~(j < 1)
        BY SeqShape DEF LcdInv, LcdTypeOK, ScreensOK
    <2> QED
        BY <1>2, <1>6, <2>1, <2>2, <2>3, <2>4 DEF ScreensLeft, LcdAt
<1>8. AllJoined'
    BY <1>1, <1>2 DEF LcdInv, AllJoined, Moves, Gone, LcdAt
<1> QED
    BY <1>4, <1>5, <1>7, <1>8 DEF LcdInv

LEMMA RemoveKeeps ==
    ASSUME LcdInv, NEW c \in LcdClients, LcdRemove(c)
    PROVE  LcdInv'
<1> DEFINE i == lcd_client[c].i
<1>1. LcdAt(c, "removing") /\ lcd_client[c].at \in Holding /\ lcd_client[c].at \notin Gone
    BY DEF LcdRemove, LcdAt, Holding, Gone
<1>2. /\ lcd.lock = c /\ lcd.threw = {}
      /\ \A d \in LcdClients \ {c} : lcd_client[d].at \notin Holding
    BY <1>1, HolderAlone
<1>3. /\ LcdTypeOK /\ ScreensOK /\ OwnSeq(screens) /\ i \in Nat \ {0}
      /\ Len(screens) \in Nat /\ DOMAIN screens = 1..Len(screens)
      /\ screens # <<>> => Len(screens) > 0 /\ Head(screens) = screens[1]
    BY SeqShape DEF LcdInv, LcdTypeOK, ScreensOK, LcdThreads
<1>4. lcd.listener # "off"
    BY <1>1 DEF LcdInv, AllJoined
\* Its screens are gone.
<1>5. ASSUME i > Len(screens), lcd' = [lcd EXCEPT !.lock = "free"],
             lcd_client' = [LcdGo(c, "terminated") EXCEPT ![c].i = 1], UNCHANGED screens
      PROVE  LcdInv'
    <2>1. /\ lcd' \in LcdStates /\ lcd'.lock = "free" /\ lcd'.threw = {}
          /\ lcd'.lost = lcd.lost /\ lcd'.listener = lcd.listener /\ screens' = screens
        BY <1>2, <1>3, <1>5 DEF LcdTypeOK, LcdStates
    <2> DEFINE g == LcdGo(c, "terminated")
    <2>2. /\ g \in LcdThreads /\ g[c].at = "terminated"
          /\ \A d \in LcdClients \ {c} : g[d] = lcd_client[d]
          /\ lcd_client' = AtPlace(g, c, 1)
        BY <1>3, <1>5, GoShape DEF LcdPlaces, AtPlace
    <2> HIDE DEF g
    <2>3. /\ lcd_client' \in LcdThreads /\ lcd_client'[c].at = "terminated" /\ lcd_client'[c].i = 1
          /\ \A d \in LcdClients \ {c} : lcd_client'[d] = lcd_client[d]
        BY <2>2, FieldSet
    <2>4. LcdTypeOK'
        BY <1>3, <2>1, <2>3 DEF LcdTypeOK, ScreensOK, OwnSeq
    <2>5. LockOwned' /\ SpinsFor'
        BY <1>2, <2>1, <2>3, LcdAssumption DEF LockOwned, SpinsFor, LcdAt, Holding
    <2>6. ScreensLeft'
        <3>1. ~lcd.lost => \A j \in DOMAIN screens : screens[j].fd # c
            BY <1>1, <1>3, <1>5 DEF LcdInv, ScreensLeft
        <3>2. ~lcd.lost => \A j \in DOMAIN screens : lcd_client'[screens[j].fd].at \notin Gone
            BY <1>3, <2>3, <3>1 DEF LcdInv, ScreensLeft, ScreensOK
        <3>3. \A d \in LcdClients : lcd_client'[d].at # "removing"
            BY <1>2, <2>3 DEF Holding
        <3>4. \A d \in LcdClients : lcd_client'[d].at \notin Holding => lcd_client'[d].i = 1
            BY <2>3 DEF LcdInv, ScreensLeft
        <3> QED
            BY <2>1, <3>2, <3>3, <3>4 DEF ScreensLeft, LcdAt
    <2>7. AllJoined'
        BY <1>4, <2>1 DEF AllJoined
    <2> QED
        BY <2>4, <2>5, <2>6, <2>7 DEF LcdInv
\* The screen of another client stays.
<1>6. ASSUME i <= Len(screens), screens[i].fd # c,
             lcd_client' = [lcd_client EXCEPT ![c].i = @ + 1], UNCHANGED <<screens, lcd>>
      PROVE  LcdInv'
    <2>1. lcd_client \in LcdThreads /\ i + 1 \in Nat \ {0} /\ lcd_client' = AtPlace(lcd_client, c, i + 1)
        BY <1>3, <1>6 DEF LcdTypeOK, AtPlace
    <2>3. /\ lcd_client' \in LcdThreads /\ lcd_client'[c].at = "removing"
          /\ lcd_client'[c].i = i + 1
          /\ \A d \in LcdClients \ {c} : lcd_client'[d] = lcd_client[d]
          /\ \A d \in LcdClients : lcd_client'[d].at = lcd_client[d].at
        <3>1. /\ lcd_client' \in LcdThreads /\ lcd_client'[c].at = lcd_client[c].at
              /\ lcd_client'[c].i = i + 1
              /\ \A d \in LcdClients \ {c} : lcd_client'[d] = lcd_client[d]
            BY <2>1, FieldSet
        <3> QED
            BY <1>1, <3>1 DEF LcdAt
    <2>4. LcdTypeOK'
        BY <1>3, <1>6, <2>3 DEF LcdTypeOK, ScreensOK, OwnSeq
    <2>5. LockOwned' /\ SpinsFor' /\ AllJoined'
        BY <1>6, <2>3
        DEF LcdInv, LockOwned, SpinsFor, AllJoined, LcdAt, ScreenLoops, WidgetLoops, Behind
    <2>6. ScreensLeft'
        <3>1. \A j \in DOMAIN screens : j < i + 1 => j < i \/ j = i
            BY <1>3
        <3>2. ~lcd.lost => \A j \in DOMAIN screens : j < i + 1 => screens[j].fd # c
            BY <1>1, <1>6, <3>1 DEF LcdInv, ScreensLeft
        <3>3. \A d \in LcdClients : lcd_client'[d].at = "removing" => d = c
            BY <1>2, <2>3 DEF Holding
        <3>4. \A d \in LcdClients : lcd_client'[d].at \notin Holding => lcd_client'[d].i = 1
            BY <1>1, <2>3 DEF LcdInv, ScreensLeft
        <3>5. ~lcd.lost => \A j \in DOMAIN screens : lcd_client'[screens[j].fd].at \notin Gone
            BY <1>3, <2>3 DEF LcdInv, ScreensLeft, ScreensOK
        <3> QED
            BY <1>6, <2>3, <3>2, <3>3, <3>4, <3>5 DEF ScreensLeft, LcdAt
    <2> QED
        BY <2>4, <2>5, <2>6 DEF LcdInv
\* Its own screen goes, or what is at the front in its place.
<1>7. ASSUME i <= Len(screens), screens[i].fd = c, ScreenLoops(screens[i].id), Spin(c)
      PROVE  LcdInv'
    <2>1. Behind(c)
        BY <1>3, <1>7 DEF Behind, ScreenLoops
    <2> QED
        BY <1>1, <1>7, <2>1, SpinKeeps
<1>8. ASSUME i <= Len(screens), screens[i].fd = c, ~ScreenLoops(screens[i].id), Removed(c),
             lcd_client' = Changed(lcd_client)
      PROVE  LcdInv'
    <2>1. /\ screens # <<>> /\ OwnSeq(Tail(screens))
          /\ DOMAIN Tail(screens) = 1..(Len(screens) - 1)
          /\ \A k \in DOMAIN Tail(screens) : Tail(screens)[k] = screens[k + 1] /\ k + 1 \in DOMAIN screens
        <3>1. screens # <<>>
            BY <1>3, <1>8
        <3> QED
            BY <1>3, <3>1, TailShape
    <2>2. screens' = Tail(screens)
        BY <1>8 DEF Removed
    <2>3. /\ lcd' \in LcdStates /\ lcd'.lock = lcd.lock /\ lcd'.threw = lcd.threw
          /\ lcd'.listener = lcd.listener /\ (~lcd'.lost => ~lcd.lost /\ Head(screens).fd = c)
        BY <1>3, <1>8 DEF Removed, LcdTypeOK, LcdStates
    <2>4. /\ lcd_client' \in LcdThreads
          /\ \A d \in LcdClients : lcd_client'[d].at = lcd_client[d].at /\ lcd_client'[d].i = lcd_client[d].i
        BY <1>3, <1>8, ChangedKeeps DEF LcdTypeOK
    <2>5. ScreensOK'
        BY <1>3, <2>1, <2>2 DEF ScreensOK
    <2>6. LcdTypeOK'
        BY <2>3, <2>4, <2>5 DEF LcdTypeOK
    <2>7. LockOwned' /\ AllJoined'
        BY <2>3, <2>4 DEF LcdInv, LockOwned, AllJoined
    <2>8. SpinsFor'
        BY <1>1, <1>2, <2>4 DEF SpinsFor, LcdAt, Holding
    <2>9. ScreensLeft'
        <3>1. \A d \in LcdClients : lcd_client'[d].at \notin Holding => lcd_client'[d].i = 1
            BY <2>4 DEF LcdInv, ScreensLeft
        <3>2. ~lcd.lost => \A j \in DOMAIN screens : lcd_client[screens[j].fd].at \notin Gone
            BY DEF LcdInv, ScreensLeft
        <3>3. ~lcd.lost => \A j \in DOMAIN screens' : lcd_client'[screens'[j].fd].at \notin Gone
            BY <1>3, <2>1, <2>2, <2>4, <3>2 DEF ScreensOK
        <3>4. \A d \in LcdClients : lcd_client'[d].at = "removing" => d = c
            BY <1>2, <2>4 DEF Holding
        <3>5. ~lcd'.lost => i = 1
            <4>1. ~lcd.lost => \A j \in DOMAIN screens : j < i => screens[j].fd # c
                BY <1>1 DEF LcdInv, ScreensLeft
            <4>2. 1 \in DOMAIN screens /\ screens[1] = Head(screens)
                BY <1>3, <2>1
            <4> QED
                BY <1>3, <2>3, <4>1, <4>2
        <3>6. \A j \in DOMAIN screens' : ~(j < 1)
            BY <1>3, <2>1, <2>2
        <3> QED
            BY <2>3, <2>4, <3>1, <3>3, <3>4, <3>5, <3>6 DEF ScreensLeft, LcdAt
    <2> QED
        BY <2>6, <2>7, <2>8, <2>9 DEF LcdInv
<1> QED
    BY <1>5, <1>6, <1>7, <1>8 DEF LcdRemove

-----------------------------------------------------------------------------

\* The listener and the end of the filter; and the pictures.
LEMMA ListenerKeeps ==
    ASSUME LcdInv, LcdPoll \/ LcdAccept \/ LcdJoined \/ LcdDelete \/ LcdShow
    PROVE  LcdInv'
<1>1. LcdTypeOK /\ lcd \in LcdStates /\ lcd_client \in LcdThreads /\ ScreensOK
    BY DEF LcdInv, LcdTypeOK
<1>2. /\ screens' = screens /\ lcd' \in LcdStates /\ lcd'.lock = lcd.lock /\ lcd'.threw = lcd.threw
      /\ lcd'.lost = lcd.lost
    <2>1. CASE LcdPoll \/ LcdAccept \/ LcdJoined \/ LcdDelete
        BY <1>1, <2>1 DEF LcdPoll, LcdAccept, LcdJoined, LcdDelete, LcdStates
    <2>2. CASE LcdShow
        <3>1. Len(screens) \in Nat /\ (screens # <<>> => Len(screens) > 0)
            BY <1>1, SeqShape DEF ScreensOK
        <3> DEFINE cur == IF lcd.cur >= Len(screens) THEN 0 ELSE lcd.cur
        <3>2. cur \in Int
            BY <1>1 DEF LcdStates
        <3> HIDE DEF cur
        <3>3. screens # <<>> => (cur + 1) % Len(screens) \in Int
            BY <3>1, <3>2
        <3>4. PICK n \in Int : lcd' = [lcd EXCEPT !.cur = n]
            BY <2>2, <3>2, <3>3 DEF LcdShow, cur
        <3>5. screens' = screens
            BY <2>2 DEF LcdShow
        <3> QED
            BY <1>1, <3>4, <3>5 DEF LcdStates
    <2> QED
        BY <2>1, <2>2
<1>3. /\ lcd_client' \in LcdThreads
      /\ \A d \in LcdClients :
            /\ lcd_client'[d].i = lcd_client[d].i
            /\ \/ lcd_client'[d].at = lcd_client[d].at
               \/ lcd_client[d].at \in Gone /\ lcd_client'[d].at \in {"none", "idle"}
    <2>1. CASE LcdJoined \/ LcdDelete \/ LcdShow
        BY <1>1, <2>1 DEF LcdJoined, LcdDelete, LcdShow
    <2>2. CASE LcdPoll
        BY <1>1, <2>2 DEF LcdPoll, LcdThreads, LcdPlaces, LcdAt, Gone
    <2>3. CASE LcdAccept
        <3>1. PICK c \in LcdClients : LcdAt(c, "none") /\ lcd_client' = LcdGo(c, "idle")
            BY <2>3 DEF LcdAccept, Succeed
        <3>2. Moves(c, "idle")
            BY <1>1, <3>1, GoMoves DEF LcdPlaces
        <3> QED
            BY <3>1, <3>2 DEF Moves, LcdAt, Gone
    <2> QED
        BY <2>1, <2>2, <2>3
<1>4. LcdTypeOK'
    BY <1>1, <1>2, <1>3 DEF LcdTypeOK, ScreensOK, OwnSeq
<1>5. LockOwned'
    BY <1>2, <1>3 DEF LcdInv, LockOwned, Gone, Holding
<1>6. SpinsFor'
    BY <1>2, <1>3 DEF LcdInv, SpinsFor, LcdAt, ScreenLoops, WidgetLoops, Behind
<1>7. ScreensLeft'
    <2>1. \A d \in LcdClients : lcd_client'[d].at \notin Holding => lcd_client'[d].i = 1
        BY <1>3 DEF LcdInv, ScreensLeft, Gone, Holding
    <2>2. ~lcd.lost => \A j \in DOMAIN screens : lcd_client'[screens[j].fd].at \notin Gone
        BY <1>1, <1>3 DEF LcdInv, ScreensLeft, ScreensOK
    <2>3. \A d \in LcdClients : lcd_client'[d].at = "removing" => lcd_client[d].at = "removing"
        BY <1>3
    <2> QED
        BY <1>2, <1>3, <2>1, <2>2, <2>3 DEF LcdInv, ScreensLeft, LcdAt
<1>8. AllJoined'
    <2>1. CASE LcdPoll \/ LcdAccept
        BY <1>1, <2>1 DEF LcdPoll, LcdAccept, AllJoined, LcdStates
    <2>2. CASE LcdJoined
        BY <2>2 DEF LcdJoined, AllJoined, Gone
    <2>3. CASE LcdDelete \/ LcdShow
        <3>1. lcd'.listener = lcd.listener /\ lcd_client' = lcd_client
            BY <1>1, <2>3 DEF LcdDelete, LcdShow, LcdStates
        <3> QED
            BY <3>1 DEF LcdInv, AllJoined
    <2> QED
        BY <2>1, <2>2, <2>3
<1> QED
    BY <1>4, <1>5, <1>6, <1>7, <1>8 DEF LcdInv

-----------------------------------------------------------------------------

\* The lock belongs to a thread that looks through the screens or to one that
\* threw; a search that does not end has its reason in the screens; and who goes
\* has no screens before the place where it looks.
THEOREM LcdInvHolds == LcdSpec => []LcdInv
<1>1. LcdInit => LcdInv
    <2> SUFFICES ASSUME LcdInit PROVE LcdInv
        OBVIOUS
    <2>1. <<>> \in Seq({}) /\ DOMAIN screens = {}
        BY EmptySeq DEF LcdInit
    <2>2. OwnSeq(screens)
        BY <2>1, OwnElements DEF LcdInit
    <2>3. LcdTypeOK
        BY <2>1, <2>2 DEF LcdInit, LcdTypeOK, LcdStates, LcdThreads, LcdPlaces, ScreensOK
    <2> QED
        BY <2>1, <2>3, LcdAssumption
        DEF LcdInit, LcdInv, LockOwned, SpinsFor, ScreensLeft, AllJoined, LcdAt, Gone, Holding
<1>2. LcdInv /\ [LcdNext]_lcdVars => LcdInv'
    <2> SUFFICES ASSUME LcdInv, [LcdNext]_lcdVars PROVE LcdInv'
        OBVIOUS
    <2>1. CASE UNCHANGED lcdVars
        BY <2>1 DEF lcdVars, LcdInv, LcdTypeOK, ScreensOK, OwnSeq, LockOwned, SpinsFor,
                    ScreensLeft, AllJoined, LcdAt, ScreenLoops, WidgetLoops, Behind
    <2> QED
        BY <2>1, ListenerKeeps, CommandKeeps, TalkKeeps, LeaveKeeps, RemoveKeeps DEF LcdNext
<1> QED
    BY <1>1, <1>2, PTL DEF LcdSpec

\* LcdSound for any number of clients, screens and widgets: who keeps the lock of
\* the screens (filter_lcdproc.cpp) and why, that screens go with their client
\* unless one of another went instead, and that no thread outlives the filter.
THEOREM LcdSoundHolds == LcdSpec => []LcdSound
<1>1. LcdInv => LcdSound
    BY DEF LcdInv, LcdSound, LockOwned, SpinsFor, ScreensLeft, AllJoined, Gone, Holding
<1> QED
    BY <1>1, LcdInvHolds, PTL

-----------------------------------------------------------------------------
(***************************************************************************)
(* VncServer: the users that the VNC target has of its source, for any     *)
(* number of clients, and what a client shows, for any size of the screen  *)
(* and any contents of its blocks.                                         *)
(*                                                                         *)
(* The threads that use the source are a finite set, however many clients  *)
(* there are; what is shown needs that it is of the colours that blocks    *)
(* have, and nothing of what the server takes for the place of a block.    *)
(***************************************************************************)

ViewerPlaces ==
    {"none", "connected", "closed", "greeting", "first frame", "reading", "ending", "left"}
UsingPlaces == {"greeting", "first frame", "reading", "ending", "left"}
VncThreads == [at : ViewerPlaces, bad : BOOLEAN]
VncTargets ==
    [main : {"off", "accepting"}, stop : BOOLEAN, paused : BOOLEAN, users : Int,
     frames : BOOLEAN, scheduled : BOOLEAN]

UsingOf(threads) == {c \in VncClients : threads[c].at \in UsingPlaces}

VncServerInv ==
    /\ vnc_server \in VncTargets /\ viewer \in [VncClients -> VncThreads]
    /\ IsFiniteSet(UsingOf(viewer)) /\ vnc_server.users = Cardinality(UsingOf(viewer))
    /\ \A c \in VncClients : viewer[c].at = "left" <=> viewer[c].bad

\* A thread that goes on among its uses, one that begins to use the source, and
\* one that ends to.
LEMMA ThreadEffect ==
    ASSUME NEW v \in [VncClients -> VncThreads], NEW w \in [VncClients -> VncThreads],
           NEW c \in VncClients, IsFiniteSet(UsingOf(v)),
           \A d \in VncClients : d # c => w[d] = v[d]
    PROVE  /\ IsFiniteSet(UsingOf(w))
           /\ (v[c].at \in UsingPlaces <=> w[c].at \in UsingPlaces) =>
                 Cardinality(UsingOf(w)) = Cardinality(UsingOf(v))
           /\ v[c].at \notin UsingPlaces /\ w[c].at \in UsingPlaces =>
                 Cardinality(UsingOf(w)) = Cardinality(UsingOf(v)) + 1
           /\ v[c].at \in UsingPlaces /\ w[c].at \notin UsingPlaces =>
                 Cardinality(UsingOf(w)) = Cardinality(UsingOf(v)) - 1
<1>2. CASE v[c].at \in UsingPlaces <=> w[c].at \in UsingPlaces
    <2>1. UsingOf(w) = UsingOf(v)
        BY <1>2 DEF UsingOf
    <2> QED
        BY <1>2, <2>1
<1>3. CASE v[c].at \notin UsingPlaces /\ w[c].at \in UsingPlaces
    <2>1. UsingOf(w) = UsingOf(v) \cup {c} /\ c \notin UsingOf(v)
        BY <1>3 DEF UsingOf
    <2> QED
        BY <1>3, <2>1, FS_AddElement
<1>4. CASE v[c].at \in UsingPlaces /\ w[c].at \notin UsingPlaces
    <2>1. UsingOf(w) = UsingOf(v) \ {c} /\ c \in UsingOf(v)
        BY <1>4 DEF UsingOf
    <2> QED
        BY <1>4, <2>1, FS_RemoveElement
<1> QED
    BY <1>2, <1>3, <1>4

\* A thread goes to another place, not out of the handshake.
LEMMA GoEffect ==
    ASSUME VncServerInv, NEW c \in VncClients, NEW place \in ViewerPlaces \ {"left"},
           Go(c, place), viewer[c].at # "left"
    PROVE  /\ viewer' \in [VncClients -> VncThreads] /\ IsFiniteSet(UsingOf(viewer'))
           /\ \A d \in VncClients : viewer'[d].at = "left" <=> viewer'[d].bad
           /\ (viewer[c].at \in UsingPlaces <=> place \in UsingPlaces) =>
                 Cardinality(UsingOf(viewer')) = Cardinality(UsingOf(viewer))
           /\ viewer[c].at \notin UsingPlaces /\ place \in UsingPlaces =>
                 Cardinality(UsingOf(viewer')) = Cardinality(UsingOf(viewer)) + 1
           /\ viewer[c].at \in UsingPlaces /\ place \notin UsingPlaces =>
                 Cardinality(UsingOf(viewer')) = Cardinality(UsingOf(viewer)) - 1
<1> DEFINE e == [at |-> place, bad |-> viewer[c].bad]
<1>1. /\ viewer \in [VncClients -> VncThreads] /\ IsFiniteSet(UsingOf(viewer))
      /\ \A d \in VncClients : viewer[d].at = "left" <=> viewer[d].bad
    BY DEF VncServerInv
<1>2. e \in VncThreads /\ e.at = place /\ e.bad = viewer[c].bad
    <2>1. viewer[c] \in VncThreads /\ place \in ViewerPlaces
        BY <1>1
    <2> QED
        BY <2>1 DEF VncThreads
<1>3. viewer' = [viewer EXCEPT ![c] = e]
    <2>1. viewer[c] \in VncThreads /\ viewer' = [viewer EXCEPT ![c] = [viewer[c] EXCEPT !.at = place]]
        BY <1>1 DEF Go
    <2>2. [viewer[c] EXCEPT !.at = place] = e
        BY <2>1 DEF VncThreads
    <2> QED
        BY <2>1, <2>2
<1> HIDE DEF e
<1>4. \A d \in VncClients : viewer'[d] = IF d = c THEN e ELSE viewer[d]
    BY <1>1, <1>3
<1>5. \A d \in VncClients : viewer'[d].at = "left" <=> viewer'[d].bad
    BY <1>1, <1>2, <1>4
<1>6. viewer' \in [VncClients -> VncThreads]
    BY <1>1, <1>2, <1>3
<1>7. viewer'[c].at = place /\ \A d \in VncClients : d # c => viewer'[d] = viewer[d]
    BY <1>2, <1>4
<1>8. viewer \in [VncClients -> VncThreads] /\ IsFiniteSet(UsingOf(viewer))
    BY <1>1
<1> QED
    BY <1>5, <1>6, <1>7, <1>8, ThreadEffect

\* A client that breaks off before it reads: its use is not given back.
LEMMA LeftEffect ==
    ASSUME VncServerInv, NEW c \in VncClients, viewer[c].at \in {"greeting", "first frame"},
           viewer' = [viewer EXCEPT ![c] = [at |-> "left", bad |-> TRUE]],
           vnc_server' = vnc_server
    PROVE  VncServerInv'
<1> DEFINE e == [at |-> "left", bad |-> TRUE]
<1>1. /\ viewer \in [VncClients -> VncThreads] /\ IsFiniteSet(UsingOf(viewer))
      /\ \A d \in VncClients : viewer[d].at = "left" <=> viewer[d].bad
    BY DEF VncServerInv
<1>2. e \in VncThreads /\ e.at = "left" /\ e.bad
    BY DEF VncThreads, ViewerPlaces
<1>3. viewer[c].at \in UsingPlaces /\ e.at \in UsingPlaces
    BY DEF UsingPlaces
<1> HIDE DEF e
<1>4. viewer' = [viewer EXCEPT ![c] = e]
    BY DEF e
<1>5. \A d \in VncClients : viewer'[d] = IF d = c THEN e ELSE viewer[d]
    BY <1>1, <1>4
<1>6. \A d \in VncClients : viewer'[d].at = "left" <=> viewer'[d].bad
    BY <1>1, <1>2, <1>5
<1>7. /\ viewer' \in [VncClients -> VncThreads] /\ IsFiniteSet(UsingOf(viewer'))
      /\ Cardinality(UsingOf(viewer')) = Cardinality(UsingOf(viewer))
    <2>1. viewer' \in [VncClients -> VncThreads]
        BY <1>1, <1>2, <1>4
    <2>2. viewer'[c].at = e.at /\ \A d \in VncClients : d # c => viewer'[d] = viewer[d]
        BY <1>5
    <2>3. viewer \in [VncClients -> VncThreads] /\ IsFiniteSet(UsingOf(viewer))
        BY <1>1
    <2> QED
        BY <1>3, <2>1, <2>2, <2>3, ThreadEffect
<1> QED
    BY <1>6, <1>7 DEF VncServerInv

LEMMA UsersEffect ==
    ASSUME NEW n \in Int, NEW s \in VncTargets
    PROVE  [s EXCEPT !.users = n] \in VncTargets /\ [s EXCEPT !.users = n].users = n
BY DEF VncTargets

LEMMA VncClientInv ==
    ASSUME VncServerInv, NEW c \in VncClients, VncAccept(c) \/ VncClient(c) \/ Broken(c)
    PROVE  VncServerInv'
<1>0. vnc_server \in VncTargets /\ vnc_server.users \in Int
    BY DEF VncServerInv, VncTargets
<1>1. CASE VncAccept(c)
    <2> DEFINE place == IF vnc_server.scheduled THEN "connected" ELSE "closed"
    <2>1. /\ place \in ViewerPlaces \ {"left"} /\ place \notin UsingPlaces
          /\ viewer[c].at \notin UsingPlaces /\ viewer[c].at # "left"
        BY <1>1 DEF VncAccept, ViewerPlaces, UsingPlaces
    <2>2. Go(c, place) /\ vnc_server' = vnc_server
        BY <1>1 DEF VncAccept
    <2> HIDE DEF place
    <2> QED
        BY <2>1, <2>2, GoEffect DEF VncServerInv
<1>2. CASE UseSource(c)
    <2>1. /\ "greeting" \in ViewerPlaces \ {"left"} /\ "greeting" \in UsingPlaces
          /\ viewer[c].at \notin UsingPlaces /\ viewer[c].at # "left" /\ Go(c, "greeting")
        BY <1>2 DEF UseSource, Here, ViewerPlaces, UsingPlaces
    <2> DEFINE n == vnc_server.users + 1
    <2>2. vnc_server' = [vnc_server EXCEPT !.users = n] /\ n \in Int
        BY <1>0, <1>2 DEF UseSource
    <2>3. vnc_server' \in VncTargets /\ vnc_server'.users = n
        BY <1>0, <2>2, UsersEffect
    <2> QED
        BY <2>1, <2>3, GoEffect DEF VncServerInv
<1>3. CASE VncHandshake(c) \/ FirstFrame(c)
    <2>1. viewer[c].at \in {"greeting", "first frame"} /\ vnc_server' = vnc_server
        BY <1>3 DEF VncHandshake, FirstFrame, Here
    <2>2. \/ Go(c, "first frame") \/ Go(c, "reading")
          \/ viewer' = [viewer EXCEPT ![c] = [at |-> "left", bad |-> TRUE]]
        BY <1>3 DEF VncHandshake, FirstFrame
    <2>3. /\ "first frame" \in ViewerPlaces \ {"left"} /\ "first frame" \in UsingPlaces
          /\ "reading" \in ViewerPlaces \ {"left"} /\ "reading" \in UsingPlaces
          /\ viewer[c].at \in UsingPlaces /\ viewer[c].at # "left"
        BY <2>1 DEF ViewerPlaces, UsingPlaces
    <2>4. CASE Go(c, "first frame") \/ Go(c, "reading")
        BY <2>1, <2>3, <2>4, GoEffect DEF VncServerInv
    <2> QED
        BY <2>1, <2>2, <2>4, LeftEffect
<1>4. CASE Message(c) \/ Broken(c)
    <2>1. vnc_server' = vnc_server /\ viewer[c].at \in UsingPlaces /\ viewer[c].at # "left"
          /\ (Go(c, "ending") \/ Go(c, "reading"))
        BY <1>4 DEF Message, Broken, Here, UsingPlaces
    <2>2. /\ "ending" \in ViewerPlaces \ {"left"} /\ "ending" \in UsingPlaces
          /\ "reading" \in ViewerPlaces \ {"left"} /\ "reading" \in UsingPlaces
        BY DEF ViewerPlaces, UsingPlaces
    <2> QED
        BY <2>1, <2>2, GoEffect DEF VncServerInv
<1>5. CASE VncLeave(c)
    <2>1. /\ "closed" \in ViewerPlaces \ {"left"} /\ "closed" \notin UsingPlaces
          /\ viewer[c].at \in UsingPlaces /\ viewer[c].at # "left" /\ Go(c, "closed")
        BY <1>5 DEF VncLeave, Here, ViewerPlaces, UsingPlaces
    <2> DEFINE n == vnc_server.users - 1
    <2>2. vnc_server' = [vnc_server EXCEPT !.users = n] /\ n \in Int
        BY <1>0, <1>5 DEF VncLeave
    <2>3. vnc_server' \in VncTargets /\ vnc_server'.users = n
        BY <1>0, <2>2, UsersEffect
    <2> QED
        BY <2>1, <2>3, GoEffect DEF VncServerInv
<1> QED
    BY <1>1, <1>2, <1>3, <1>4, <1>5 DEF VncClient

\* The source has one user for each client that is served, and for each whose
\* handshake failed, for any set of clients (target_vnc.cpp, vnc_main_loop()).
THEOREM VncUsersHold == VncServerSpec => [](VncServerInv /\ VncUsers)
<1>1. VncServerInit => VncServerInv
    <2> SUFFICES ASSUME VncServerInit PROVE VncServerInv
        OBVIOUS
    <2>1. /\ vnc_server \in VncTargets /\ viewer \in [VncClients -> VncThreads] /\ vnc_server.users = 0
          /\ \A c \in VncClients : viewer[c].at = "none" /\ ~viewer[c].bad
        BY DEF VncServerInit, VncTargets, VncThreads, ViewerPlaces
    <2>2. UsingOf(viewer) = {}
        BY <2>1 DEF UsingOf, UsingPlaces
    <2> QED
        BY <2>1, <2>2, FS_EmptySet DEF VncServerInv
<1>2. VncServerInv /\ [VncServerNext]_vncServerVars => VncServerInv'
    <2> SUFFICES ASSUME VncServerInv, [VncServerNext]_vncServerVars PROVE VncServerInv'
        OBVIOUS
    <2>1. CASE VncControl \/ VncMainEnds
        <3>1. vnc_server' \in VncTargets /\ vnc_server'.users = vnc_server.users /\ viewer' = viewer
            BY <2>1 DEF VncServerInv, VncControl, VncMainEnds, VncTargets
        <3> QED
            BY <3>1 DEF VncServerInv, UsingOf
    <2>2. CASE \E c \in VncClients : VncAccept(c) \/ VncClient(c) \/ Broken(c)
        BY <2>2, VncClientInv
    <2>3. CASE UNCHANGED vncServerVars
        BY <2>3 DEF VncServerInv, UsingOf, vncServerVars
    <2> QED
        BY <2>1, <2>2, <2>3 DEF VncServerNext
<1>3. VncServerInv => VncUsers
    BY DEF VncServerInv, VncUsers, UsingOf, UsingPlaces
<1> QED
    BY <1>1, <1>2, <1>3, PTL DEF VncServerSpec

-----------------------------------------------------------------------------

VncColours == VncContents \cup {Black} \cup {SolidColour(c) : c \in VncContents}

VncScreens ==
    [view : [Blocks -> VncColours], shows : [Blocks -> SUBSET VncColours],
     sent : [Blocks -> SUBSET VncColours], loose : SUBSET Blocks, full : BOOLEAN, updates : Int]

\* VncView, of a screen.
ViewOf(v) ==
    \A b \in Blocks :
      /\ v.shows[b] \subseteq v.sent[b] \cup {SolidColour(c) : c \in v.sent[b]}
      /\ b \notin v.loose => v.shows[b] = {v.view[b]}

\* Block b of an update, of which e is what is sent.
BlockUpdated(v, w, b, c, e) ==
    /\ w.sent[b] = v.sent[b] \cup {c}
    /\ w.view[b] = ViewAfter(e, b, c)
    /\ w.shows[b] = ShowsAfter(e, b, c)

LEMMA VncIncrementalEffect ==
    ASSUME vnc \in VncScreens, ViewOf(vnc), VncIncremental
    PROVE  vnc' \in VncScreens /\ ViewOf(vnc')
<1>1. PICK frame \in [Blocks -> VncContents], hextile \in BOOLEAN :
         LET e == [b \in Blocks |-> Encoding(b, frame[b], hextile)]
             none == {b \in Blocks : e[b] = "none"}
             v == [Updated(frame) EXCEPT
                     !.view = [b \in Blocks |-> ViewAfter(e[b], b, frame[b])],
                     !.shows = [b \in Blocks |-> ShowsAfter(e[b], b, frame[b])],
                     !.loose = (@ \cap none) \cup {b \in Blocks : e[b] = "copy"}]
         IN /\ vnc.full /\ vnc.updates < MaxVncUpdates
            /\ IF none # Blocks THEN vnc' = v
               ELSE \E b \in Blocks :
                      vnc' = [v EXCEPT !.shows[b] = @ \cup {frame[b]}, !.loose = @ \cup {b}]
            /\ vnc_cam' = frame
    BY DEF VncIncremental
<1> DEFINE e == [b \in Blocks |-> Encoding(b, frame[b], hextile)]
           none == {b \in Blocks : e[b] = "none"}
           view == [b \in Blocks |-> ViewAfter(e[b], b, frame[b])]
           shows == [b \in Blocks |-> ShowsAfter(e[b], b, frame[b])]
           sent == [b \in Blocks |-> vnc.sent[b] \cup {frame[b]}]
           loose == (vnc.loose \cap none) \cup {b \in Blocks : e[b] = "copy"}
           v == [vnc EXCEPT !.sent = sent, !.full = TRUE, !.updates = vnc.updates + 1,
                            !.view = view, !.shows = shows, !.loose = loose]
<1>2. \/ vnc' = v
      \/ \E b \in Blocks : vnc' = [v EXCEPT !.shows[b] = @ \cup {frame[b]}, !.loose = @ \cup {b}]
    BY <1>1 DEF Updated, VncScreens
<1>3. \A b \in Blocks : e[b] \in {"solid", "raw", "copy", "none"}
    BY DEF Encoding
<1>4. \A b \in Blocks : frame[b] \in VncColours /\ SolidColour(frame[b]) \in VncColours
    BY DEF VncColours
<1> HIDE DEF e
<1>5. view \in [Blocks -> VncColours] /\ shows \in [Blocks -> SUBSET VncColours]
    <2> SUFFICES ASSUME NEW b \in Blocks
                 PROVE  /\ ViewAfter(e[b], b, frame[b]) \in VncColours
                        /\ ShowsAfter(e[b], b, frame[b]) \subseteq VncColours
        OBVIOUS
    <2>1. vnc.view[b] \in VncColours /\ vnc.shows[b] \subseteq VncColours
        BY DEF VncScreens
    <2> QED
        BY <1>3, <1>4, <2>1 DEF ViewAfter, ShowsAfter, FillBlock, CopyBlock
<1>6. sent \in [Blocks -> SUBSET VncColours] /\ loose \subseteq Blocks /\ none \subseteq Blocks
    BY <1>4 DEF VncScreens
<1>7. \A b \in Blocks :
         /\ shows[b] \subseteq sent[b] \cup {SolidColour(c) : c \in sent[b]}
         /\ b \notin loose => shows[b] = {view[b]}
    <2> SUFFICES ASSUME NEW b \in Blocks
                 PROVE  /\ shows[b] \subseteq sent[b] \cup {SolidColour(c) : c \in sent[b]}
                        /\ b \notin loose => shows[b] = {view[b]}
        OBVIOUS
    <2>1. /\ vnc.shows[b] \subseteq vnc.sent[b] \cup {SolidColour(c) : c \in vnc.sent[b]}
          /\ b \notin vnc.loose => vnc.shows[b] = {vnc.view[b]}
        BY DEF ViewOf
    <2>2. /\ view[b] = ViewAfter(e[b], b, frame[b]) /\ shows[b] = ShowsAfter(e[b], b, frame[b])
          /\ sent[b] = vnc.sent[b] \cup {frame[b]}
        OBVIOUS
    <2>3. CASE e[b] = "none"
        BY <2>1, <2>2, <2>3 DEF ViewAfter, ShowsAfter
    <2>4. CASE e[b] = "copy"
        BY <2>1, <2>2, <2>4 DEF ViewAfter, ShowsAfter
    <2>5. CASE e[b] \in {"raw", "solid"}
        BY <2>2, <2>5 DEF ViewAfter, ShowsAfter, FillBlock, CopyBlock
    <2> QED
        BY <1>3, <2>3, <2>4, <2>5
<1> HIDE DEF none, view, shows, sent, loose
<1>8. v \in VncScreens /\ v.shows = shows /\ v.sent = sent /\ v.view = view /\ v.loose = loose
    <2>1. vnc.updates + 1 \in Int
        BY DEF VncScreens
    <2> QED
        BY <1>5, <1>6, <2>1 DEF VncScreens
<1>9. CASE vnc' = v
    BY <1>7, <1>8, <1>9 DEF ViewOf
<1>10. CASE \E b \in Blocks : vnc' = [v EXCEPT !.shows[b] = @ \cup {frame[b]}, !.loose = @ \cup {b}]
    <2> HIDE DEF v
    <2>1. PICK b \in Blocks :
             vnc' = [v EXCEPT !.shows[b] = @ \cup {frame[b]}, !.loose = @ \cup {b}]
        BY <1>10
    <2> DEFINE more == [shows EXCEPT ![b] = shows[b] \cup {frame[b]}]
               less == loose \cup {b}
    <2>2. vnc' = [v EXCEPT !.shows = more, !.loose = less]
        BY <1>8, <2>1 DEF VncScreens
    <2>3. /\ more \in [Blocks -> SUBSET VncColours] /\ less \subseteq Blocks
          /\ \A d \in Blocks : more[d] = IF d = b THEN shows[b] \cup {frame[b]} ELSE shows[d]
        BY <1>4, <1>5, <1>6
    <2>4. frame[b] \in sent[b]
        BY DEF sent
    <2>5. \A d \in Blocks :
             /\ more[d] \subseteq sent[d] \cup {SolidColour(c) : c \in sent[d]}
             /\ d \notin less => more[d] = {view[d]}
        BY <1>7, <2>3, <2>4
    <2> HIDE DEF more, less
    <2>6. /\ vnc' \in VncScreens /\ vnc'.shows = more /\ vnc'.loose = less
          /\ vnc'.sent = sent /\ vnc'.view = view
        BY <1>8, <2>2, <2>3 DEF VncScreens
    <2> QED
        BY <2>5, <2>6 DEF ViewOf
<1> QED
    BY <1>2, <1>9, <1>10

LEMMA VncFullEffect ==
    ASSUME vnc \in VncScreens, ViewOf(vnc), VncFull
    PROVE  vnc' \in VncScreens /\ ViewOf(vnc')
<1>1. PICK frame \in [Blocks -> VncContents] :
         vnc' = [Updated(frame) EXCEPT !.view = frame, !.shows = [b \in Blocks |-> {frame[b]}],
                                       !.loose = {}]
    BY DEF VncFull
<1> DEFINE shows == [b \in Blocks |-> {frame[b]}]
           sent == [b \in Blocks |-> vnc.sent[b] \cup {frame[b]}]
           loose == {}
<1>2. vnc' = [vnc EXCEPT !.sent = sent, !.full = TRUE, !.updates = vnc.updates + 1,
                         !.view = frame, !.shows = shows, !.loose = loose]
    BY <1>1 DEF Updated, VncScreens
<1>3. \A b \in Blocks : frame[b] \in VncColours
    BY DEF VncColours
<1>4. /\ frame \in [Blocks -> VncColours] /\ shows \in [Blocks -> SUBSET VncColours]
      /\ sent \in [Blocks -> SUBSET VncColours] /\ loose \subseteq Blocks
    BY <1>3 DEF VncScreens
<1>5. \A b \in Blocks : frame[b] \in sent[b] /\ shows[b] = {frame[b]}
    OBVIOUS
<1> HIDE DEF shows, sent, loose
<1>6. vnc' \in VncScreens /\ vnc'.shows = shows /\ vnc'.sent = sent /\ vnc'.view = frame
    <2>1. vnc.updates + 1 \in Int
        BY DEF VncScreens
    <2> QED
        BY <1>2, <1>4, <2>1 DEF VncScreens
<1> QED
    BY <1>5, <1>6 DEF ViewOf

\* A viewer of the VNC target: counted as a user of the source while it is there, and
\* shown nothing but what was sent, whatever the size of the screen and the contents
\* of its blocks (target_vnc.cpp).
THEOREM VncSoundHolds == VncServerSpec /\ VncSpec => []VncSound
<1> DEFINE ScreenInv == vnc \in VncScreens /\ ViewOf(vnc)
<1>1. VncInit => ScreenInv
    <2> SUFFICES ASSUME VncInit PROVE ScreenInv
        OBVIOUS
    <2> DEFINE view == [b \in Blocks |-> Black]
               shows == [b \in Blocks |-> {Black}]
    <2>1. /\ view \in [Blocks -> VncColours] /\ shows \in [Blocks -> SUBSET VncColours]
          /\ \A b \in Blocks : shows[b] = {view[b]}
        BY DEF VncColours
    <2> HIDE DEF view, shows
    <2>2. vnc = [view |-> view, shows |-> shows, sent |-> shows, loose |-> {}, full |-> FALSE,
                 updates |-> 0]
        BY DEF VncInit, view, shows
    <2> QED
        BY <2>1, <2>2 DEF VncScreens, ViewOf
<1>2. ScreenInv /\ [VncNext]_vncVars => ScreenInv'
    <2>1. ScreenInv /\ VncNext => ScreenInv'
        BY VncFullEffect, VncIncrementalEffect DEF VncNext
    <2>2. ScreenInv /\ UNCHANGED vncVars => ScreenInv'
        BY DEF vncVars, VncScreens, ViewOf, VncColours, Blocks, SolidColour, Black
    <2> QED
        BY <2>1, <2>2
<1>3. ScreenInv => VncView
    BY DEF ViewOf, VncView
<1> QED
    BY <1>1, <1>2, <1>3, VncUsersHold, PTL DEF VncSpec, VncSound
=============================================================================
