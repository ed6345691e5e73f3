------------------------------- MODULE Stream -------------------------------
(***************************************************************************)
(* How a browser learns that something has changed: the notification sent   *)
(* with a commit (core/events.py), the hub that listens for all browsers of *)
(* an API process (core/stream_hub.py), the stream of one browser           *)
(* (api/routers/stream.py) and the pages that fetch anew                    *)
(* (web/src/shared/stream.ts, query.ts).  A notification may get lost; the  *)
(* slow poll of every page is the fallback.                                  *)
(***************************************************************************)
EXTENDS Integers, Sequences

CONSTANTS
  Browser,
  QueueLimit,  \* messages a subscriber may leave unread (500 in the code)
  MaxChanges,  \* bound: commits
  MaxUpsets    \* bound: broken connections

VARIABLES
  version,    \* of the data, one per commit
  hub,        \* its thread: "none", "connecting", "listening", "leaving"
  connected,  \* the hub's flag: the first LISTEN after a break has happened
  notes,      \* notifications at the hub's socket
  live,       \* browsers with a subscription
  queue,      \* [Browser -> messages for its stream]
  stale,      \* browsers whose pages have been told to fetch
  asked,      \* [Browser -> version its latest fetch has read]
  answers,    \* [Browser -> versions on their way to its page]
  seen,       \* [Browser -> version its page shows]
  upsets

svars == <<version, hub, connected, notes, live, queue, stale, asked, answers, seen, upsets>>
pages == <<stale, asked, answers, seen>>

Init ==
  /\ version = 0 /\ hub = "none" /\ connected = FALSE /\ notes = 0
  /\ live = {} /\ queue = [b \in Browser |-> <<>>]
  /\ stale = {} /\ asked = [b \in Browser |-> 0] /\ answers = [b \in Browser |-> {}] /\ seen = [b \in Browser |-> 0]
  /\ upsets = 0

Upset == upsets < MaxUpsets /\ upsets' = upsets + 1

(* Subscriber.offer: whoever cannot follow loses its backlog and fetches all.*)
Offer(q, m) == IF Len(q) < QueueLimit THEN Append(q, m) ELSE <<"resync">>
ToAll(m) == [b \in Browser |-> IF b \in live THEN Offer(queue[b], m) ELSE queue[b]]

(* The notification leaves with the commit and reaches who listens then.     *)
Commit ==
  /\ version < MaxChanges /\ version' = version + 1
  /\ notes' = IF hub = "listening" THEN notes + 1 ELSE notes
  /\ UNCHANGED <<hub, connected, live, queue, pages, upsets>>

-----------------------------------------------------------------------------
(* The hub.                                                                 *)

Listen ==
  /\ hub = "connecting" /\ hub' = "listening" /\ connected' = TRUE
  /\ queue' = IF connected THEN queue ELSE ToAll("resync")
  /\ UNCHANGED <<version, notes, live, pages, upsets>>

Dispatch ==
  /\ hub = "listening" /\ notes > 0 /\ notes' = notes - 1 /\ queue' = ToAll("change")
  /\ UNCHANGED <<version, hub, connected, live, pages, upsets>>

ConnectionBreaks ==
  /\ hub = "listening" /\ Upset
  /\ hub' = "connecting" /\ connected' = FALSE /\ notes' = 0
  /\ UNCHANGED <<version, live, queue, pages>>

(* Without subscribers the connection is closed; the thread ends unless one  *)
(* has come meanwhile.  The flag stays as it is.                              *)
LeaveOff ==
  /\ hub = "listening" /\ live = {} /\ hub' = "leaving" /\ notes' = 0
  /\ UNCHANGED <<version, connected, live, queue, pages, upsets>>

EndOrGoOn ==
  /\ hub \in {"leaving", "connecting"}
  /\ hub = "connecting" => live = {}
  /\ hub' = IF live = {} THEN "none" ELSE "connecting"
  /\ UNCHANGED <<version, connected, notes, live, queue, pages, upsets>>

-----------------------------------------------------------------------------
(* The browsers.  The first frame of a stream tells the pages to fetch all.  *)

StartsHub == IF hub = "none" THEN "connecting" ELSE hub
Subscribe(b) ==
  /\ b \notin live /\ live' = live \cup {b} /\ hub' = StartsHub
  /\ queue' = [queue EXCEPT ![b] = <<>>] /\ stale' = stale \cup {b}
  /\ UNCHANGED <<version, connected, notes, asked, answers, seen, upsets>>

(* The stream ends: its time is up, the network or the browser's watchdog.   *)
Leave(b) ==
  /\ b \in live /\ Upset /\ live' = live \ {b} /\ queue' = [queue EXCEPT ![b] = <<>>]
  /\ UNCHANGED <<version, hub, connected, notes, pages>>

Frame(b) ==
  /\ queue[b] # <<>> /\ queue' = [queue EXCEPT ![b] = Tail(@)] /\ stale' = stale \cup {b}
  /\ UNCHANGED <<version, hub, connected, notes, live, asked, answers, seen, upsets>>

(* Fetches are not ordered: an earlier answer may come after a later one.    *)
Fetch(b) ==
  /\ b \in stale /\ stale' = stale \ {b}
  /\ answers' = [answers EXCEPT ![b] = @ \cup {version}] /\ asked' = [asked EXCEPT ![b] = version]
  /\ UNCHANGED <<version, hub, connected, notes, live, queue, seen, upsets>>

Show(b) ==
  /\ \E v \in answers[b] : answers' = [answers EXCEPT ![b] = @ \ {v}] /\ seen' = [seen EXCEPT ![b] = v]
  /\ UNCHANGED <<version, hub, connected, notes, live, queue, stale, asked, upsets>>

Polls_Mut(b) == b \notin live
Polls(b) == TRUE
Poll(b) ==
  /\ Polls(b) /\ seen[b] # version /\ b \notin stale /\ stale' = stale \cup {b}
  /\ UNCHANGED <<version, hub, connected, notes, live, queue, asked, answers, seen, upsets>>

Next ==
  \/ Commit \/ Listen \/ Dispatch \/ ConnectionBreaks \/ LeaveOff \/ EndOrGoOn
  \/ \E b \in Browser : Subscribe(b) \/ Leave(b) \/ Frame(b) \/ Fetch(b) \/ Show(b) \/ Poll(b)

Fairness ==
  /\ WF_svars(Listen) /\ WF_svars(Dispatch)
  /\ \A b \in Browser :
       WF_svars(Subscribe(b)) /\ WF_svars(Frame(b)) /\ WF_svars(Fetch(b)) /\ WF_svars(Show(b)) /\ WF_svars(Poll(b))

-----------------------------------------------------------------------------
(* Once nothing changes any more every page shows the last version, although *)
(* notifications get lost and answers overtake each other.                    *)
PagesCatchUp == \A b \in Browser : <>[](seen[b] = version)

(* web/src/shared/stream.ts says that the changes of a break are made good   *)
(* by the fetch after it: when the hub listens, and nothing is on its way to *)
(* a page any more, its latest fetch has read the last version.               *)
BreaksAreMadeGood == \A b \in live :
  hub = "listening" /\ notes = 0 /\ queue[b] = <<>> /\ b \notin stale => asked[b] = version
=============================================================================
