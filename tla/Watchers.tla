------------------------------ MODULE Watchers ------------------------------
(***************************************************************************)
(* The daemons that sit in a room as members and tell another system what  *)
(* happens there: netherchat bridge (tui/bridge), netherchat-slack-notify, *)
(* -teams-notify, -itsm and -siem-out (siemout).  They share one shape: a  *)
(* select over the client's event channel, its Done channel and the        *)
(* process's signal, and a goroutine for each delivery.                    *)
(*                                                                         *)
(* A select takes any branch that is ready, so an event already queued may *)
(* be passed over for Done or the signal.  A delivery ends well, is        *)
(* refused (a 3xx or 4xx) or fails (a 5xx or no answer).  Event contents   *)
(* are left out: an event is its type, who is behind it, and its number.   *)
(***************************************************************************)
EXTENDS Naturals, Sequences, FiniteSets

CONSTANTS Commands,   \* command lines: [daemon, room, dest, on, kind]
          Feeds,      \* sequences of what the relay sends: [k, by, self, replayed, record]
          Self,       \* the daemon's own name
          Backoff,    \* length of the retry schedule
          BatchSize,
          MaxTicks    \* bound: flushes by the interval

ASSUME WatchersAssumption ==
  /\ Backoff \in Nat /\ BatchSize \in Nat \ {0} /\ MaxTicks \in Nat
  /\ \A s \in Commands : s.daemon \in {"bridge", "slack", "teams", "itsm", "siem"}
  /\ \A f \in Feeds : f \in Seq({f[i] : i \in DOMAIN f})

VARIABLES daemon, on,
          feed,      \* frames the relay still sends
          events,    \* c.Events()
          invites,   \* RequestInvite calls the relay has not answered
          gone,      \* c.Done() is closed
          stopping,  \* ctx is cancelled by a signal
          loop,      \* select, wait (wg.Wait), timed (waitWithTimeout), left (main returned)
          exit,      \* history: the branch that ended the loop
          taken,     \* history: the events the loop took
          pending,   \* notifier.pendingOpen
          scuttler,  \* notifier.lastScuttleBy, "" when unset
          buf,       \* Batcher.buf
          hand,      \* batches taken from the buffer and not yet handed to a goroutine
          ticker,    \* Batcher.Run: run, cancelled, ended
          ticks,
          jobs       \* delivery goroutines: [evs, by, stage, st, tries, report]
watcherVars == <<daemon, on, feed, events, invites, gone, stopping, loop, exit, taken, pending, scuttler,
                 buf, hand, ticker, ticks, jobs>>

------------------------------------------------------------------------------
(* Start *)

validEvents == {"decision", "action", "ack", "seal", "vanish", "scuttle"}
validNotifyEvents == {"open", "seal", "scuttle"}
\* ParseEvents, parseEvents: every type known, at least one.
ParseEvents(list, valid) == list # {} /\ list \subseteq valid

\* What each program needs to start: a room, where to deliver, and an --on list or the
\* kind of system it reports to.  The set of command lines it accepts, as it reads them.
bridgeStarts(s) == IF s.room /\ s.dest /\ ParseEvents(s.on, validEvents) THEN {s} ELSE {}
slackStarts(s) == IF s.room /\ s.dest /\ ParseEvents(s.on, validNotifyEvents) THEN {s} ELSE {}
teamsStarts(s) == IF s.room /\ s.dest /\ ParseEvents(s.on, validNotifyEvents) THEN {s} ELSE {}
itsmStarts(s) == IF s.room /\ s.dest /\ s.kind \in {"servicenow", "jira"} THEN {s} ELSE {}
siemStarts(s) == IF s.room /\ s.dest /\ s.kind \in {"splunk", "sentinel", "generic"} THEN {s} ELSE {}
Starts(s) ==
  CASE s.daemon = "bridge" -> bridgeStarts(s)
    [] s.daemon = "slack" -> slackStarts(s)
    [] s.daemon = "teams" -> teamsStarts(s)
    [] s.daemon = "itsm" -> itsmStarts(s)
    [] s.daemon = "siem" -> siemStarts(s)

------------------------------------------------------------------------------
(* The client's side (tui/client) *)

Event(k, f, n) == [k |-> k, by |-> f.by, self |-> f.self, replayed |-> f.replayed, record |-> f.record, n |-> n]
\* What the client emits for one frame.  For a scuttle (onControl) it signs its own
\* receipt, under its own name, and emits that before the control event.
Emits(f, n) ==
  IF f.k = "scuttle" /\ ~f.self THEN <<[Event("receipt", f, n) EXCEPT !.by = Self], Event("scuttle", f, n)>>
  ELSE <<Event(f.k, f, n)>>
Surface ==
  /\ ~gone /\ loop # "left" /\ feed # <<>>
  /\ events' = events \o Emits(Head(feed), Len(feed)) /\ feed' = Tail(feed)
  /\ UNCHANGED <<daemon, on, invites, gone, stopping, loop, exit, taken, pending, scuttler, buf, hand, ticker, ticks, jobs>>
Invited ==
  /\ ~gone /\ loop # "left" /\ invites > 0 /\ invites' = invites - 1
  /\ events' = Append(events, [k |-> "invite", by |-> "", self |-> FALSE, replayed |-> FALSE, record |-> FALSE, n |-> 0])
  /\ UNCHANGED <<daemon, on, feed, gone, stopping, loop, exit, taken, pending, scuttler, buf, hand, ticker, ticks, jobs>>
\* readLoop returns and closes Done; what it emitted stays queued.
Disconnect ==
  /\ ~gone /\ loop # "left" /\ gone' = TRUE
  /\ UNCHANGED <<daemon, on, feed, events, invites, stopping, loop, exit, taken, pending, scuttler, buf, hand, ticker, ticks, jobs>>
Signal ==
  /\ ~stopping /\ loop # "left" /\ stopping' = TRUE
  /\ UNCHANGED <<daemon, on, feed, events, invites, gone, loop, exit, taken, pending, scuttler, buf, hand, ticker, ticks, jobs>>

------------------------------------------------------------------------------
(* What an event turns into *)

Job(e, by, stage) == [evs |-> <<e.n>>, by |-> by, stage |-> stage, st |-> "post", tries |-> 0, report |-> ""]

\* Bridge.Match: subscribed, and not its own or a replayed record entry.
Match(e) ==
  /\ e.k \in on \cap validEvents
  /\ e.k \in {"decision", "action"} => ~e.self /\ ~e.replayed
  /\ e.k \in {"ack", "vanish", "scuttle"} => ~e.self
\* notifier.messages: an alert notice asks for an invite and waits for it, the invite
\* makes the open message, a scuttle is remembered, its receipt makes the message.
OpenMessage(e) == e.k = "invite" /\ pending
SealMessage(e) == e.k = "seal" /\ "seal" \in on
ScuttleMessage(e) == e.k = "receipt" /\ "scuttle" \in on
messages(e) ==
  /\ pending' = IF e.k = "alert" /\ "open" \in on THEN TRUE ELSE IF e.k = "invite" THEN FALSE ELSE pending
  /\ invites' = IF e.k = "alert" /\ "open" \in on THEN invites + 1 ELSE invites
  /\ scuttler' = IF e.k = "scuttle" THEN e.by ELSE scuttler
  /\ jobs' = IF OpenMessage(e) \/ SealMessage(e) THEN Append(jobs, Job(e, "", "only"))
             ELSE IF ScuttleMessage(e) THEN Append(jobs, Job(e, IF scuttler # "" THEN scuttler ELSE e.by, "only"))
             ELSE jobs
\* notifier.cards: the Teams notifier has the same policy.
cards(e) == messages(e)
\* netherchat-itsm: a seal that carries a record is attached to the ticket.
attachmentFor(e) == e.k = "seal" /\ e.record
\* bridge.mapEvent of netherchat-siem-out: metadata of these types, its own acts included.
mapEvent(e) == e.k \in {"join", "leave", "ack", "vanish", "scuttle", "seal", "clock", "request"}

------------------------------------------------------------------------------
(* The event loop *)

\* Batcher.Add: the buffer is taken when it is full; the lock is released before the
\* batch is handed to its goroutine.
Add(e) ==
  /\ hand["loop"] = <<>>
  /\ IF Len(buf) + 1 >= BatchSize THEN hand' = [hand EXCEPT !["loop"] = Append(buf, e.n)] /\ buf' = <<>>
     ELSE buf' = Append(buf, e.n) /\ UNCHANGED hand
\* Batcher.Flush, by the ticker's goroutine.
\* Mutation: the buffer is not reset.
FlushKeeps == hand' = [hand EXCEPT !["ticker"] = buf] /\ UNCHANGED buf
Flush == hand' = [hand EXCEPT !["ticker"] = buf] /\ buf' = <<>>

\* The body of each program's select, for an event.
bridgeTakes(e) ==
  /\ jobs' = IF Match(e) THEN Append(jobs, Job(e, e.by, "only")) ELSE jobs
  /\ UNCHANGED <<invites, pending, scuttler, buf, hand>>
slackTakes(e) == messages(e) /\ UNCHANGED <<buf, hand>>
teamsTakes(e) == cards(e) /\ UNCHANGED <<buf, hand>>
itsmTakes(e) ==
  /\ jobs' = IF attachmentFor(e) THEN Append(jobs, Job(e, e.by, "attach")) ELSE jobs
  /\ UNCHANGED <<invites, pending, scuttler, buf, hand>>
siemTakes(e) ==
  /\ IF mapEvent(e) THEN Add(e) ELSE hand["loop"] = <<>> /\ UNCHANGED <<buf, hand>>
  /\ UNCHANGED <<invites, pending, scuttler, jobs>>
Take ==
  /\ loop = "select" /\ events # <<>> /\ events' = Tail(events) /\ taken' = Append(taken, Head(events))
  /\ \/ daemon = "bridge" /\ bridgeTakes(Head(events))
     \/ daemon = "slack" /\ slackTakes(Head(events))
     \/ daemon = "teams" /\ teamsTakes(Head(events))
     \/ daemon = "itsm" /\ itsmTakes(Head(events))
     \/ daemon = "siem" /\ siemTakes(Head(events))
  /\ UNCHANGED <<daemon, on, feed, gone, stopping, loop, exit, ticker, ticks>>

\* flush of netherchat-siem-out: wg.Add and a goroutine for the batch.
HandOver(g) ==
  /\ loop # "left" /\ hand[g] # <<>> /\ hand' = [hand EXCEPT ![g] = <<>>]
  /\ jobs' = Append(jobs, [evs |-> hand[g], by |-> "", stage |-> "only", st |-> "post", tries |-> 0, report |-> ""])
  /\ UNCHANGED <<daemon, on, feed, events, invites, gone, stopping, loop, exit, taken, pending, scuttler, buf, ticker, ticks>>
\* Batcher.Run: on the interval, and once more when it is cancelled.
Run ==
  /\ daemon = "siem" /\ loop # "left" /\ hand["ticker"] = <<>>
  /\ \/ ticker = "run" /\ buf # <<>> /\ ticks < MaxTicks /\ ticks' = ticks + 1 /\ Flush /\ UNCHANGED ticker
     \/ ticker = "cancelled" /\ ticker' = "ended" /\ Flush /\ UNCHANGED ticks
  /\ UNCHANGED <<daemon, on, feed, events, invites, gone, stopping, loop, exit, taken, pending, scuttler, jobs>>

stopBatcher == ticker' = IF daemon = "siem" /\ ticker = "run" THEN "cancelled" ELSE ticker
SelectDone ==
  /\ loop = "select" /\ hand["loop"] = <<>> /\ gone /\ loop' = "wait" /\ exit' = "done" /\ stopBatcher
  /\ UNCHANGED <<daemon, on, feed, events, invites, gone, stopping, taken, pending, scuttler, buf, hand, ticks, jobs>>
SelectStop ==
  /\ loop = "select" /\ hand["loop"] = <<>> /\ stopping /\ loop' = "timed" /\ exit' = "signal" /\ stopBatcher
  /\ UNCHANGED <<daemon, on, feed, events, invites, gone, stopping, taken, pending, scuttler, buf, hand, ticks, jobs>>

AllDone == \A j \in DOMAIN jobs : jobs[j].st = "end"
Wait ==
  /\ loop = "wait" /\ AllDone /\ loop' = "left"
  /\ UNCHANGED <<daemon, on, feed, events, invites, gone, stopping, exit, taken, pending, scuttler, buf, hand, ticker, ticks, jobs>>
\* waitWithTimeout: the deliveries or the timer, whichever is first.
waitWithTimeout ==
  /\ loop = "timed" /\ loop' = "left"
  /\ UNCHANGED <<daemon, on, feed, events, invites, gone, stopping, exit, taken, pending, scuttler, buf, hand, ticker, ticks, jobs>>

------------------------------------------------------------------------------
(* A delivery *)

End(j, report) == [j EXCEPT !.st = "end", !.report = report]
\* Bridge.Fire: a refusal or the last failure of the schedule ends it.
\* Mutation: the schedule starts over.
bridgeFiredForever(j, outcome) ==
  IF outcome = "ok" THEN End(j, "fired")
  ELSE IF outcome = "refused" THEN End(j, "failed") ELSE [j EXCEPT !.st = "backoff", !.tries = 0]
bridgeFired(j, outcome) ==
  IF outcome = "ok" THEN End(j, "fired")
  ELSE IF outcome = "refused" \/ j.tries = Backoff THEN End(j, "failed") ELSE [j EXCEPT !.st = "backoff"]
\* itsm.Deliver over Config.do: the record, then a note; a record that could not be
\* attached is printed.
itsmDelivered(j, outcome) ==
  IF outcome = "ok" THEN IF j.stage = "attach" THEN [j EXCEPT !.stage = "note", !.tries = 0] ELSE End(j, "fired")
  ELSE IF outcome = "refused" \/ j.tries = Backoff THEN End(j, IF j.stage = "attach" THEN "printed" ELSE "failed")
  ELSE [j EXCEPT !.st = "backoff"]
\* slack.Post, teams.Post and the sinks of siemout try once.
slackPosted(j, outcome) == End(j, IF outcome = "ok" THEN "fired" ELSE "failed")
teamsPosted(j, outcome) == End(j, IF outcome = "ok" THEN "fired" ELSE "failed")
sinkSent(j, outcome) == End(j, IF outcome = "ok" THEN "fired" ELSE "failed")
Posted(j, outcome) ==
  CASE daemon = "bridge" -> bridgeFired(j, outcome)
    [] daemon = "itsm" -> itsmDelivered(j, outcome)
    [] daemon = "slack" -> slackPosted(j, outcome)
    [] daemon = "teams" -> teamsPosted(j, outcome)
    [] daemon = "siem" -> sinkSent(j, outcome)
Fire(i) ==
  /\ loop # "left" /\ jobs[i].st = "post"
  /\ \E outcome \in {"ok", "refused", "error"} : jobs' = [jobs EXCEPT ![i] = Posted(@, outcome)]
  /\ UNCHANGED <<daemon, on, feed, events, invites, gone, stopping, loop, exit, taken, pending, scuttler, buf, hand, ticker, ticks>>
\* The backoff is over; a bridge's is cut short by the signal and reported.
Retry(i) ==
  /\ loop # "left" /\ jobs[i].st = "backoff"
  /\ \/ jobs' = [jobs EXCEPT ![i].st = "post", ![i].tries = @ + 1]
     \/ daemon = "bridge" /\ stopping /\ jobs' = [jobs EXCEPT ![i] = End(@, "failed")]
  /\ UNCHANGED <<daemon, on, feed, events, invites, gone, stopping, loop, exit, taken, pending, scuttler, buf, hand, ticker, ticks>>

WatchersInit ==
  /\ feed \in Feeds
  /\ \E s \in UNION {Starts(c) : c \in Commands} : daemon = s.daemon /\ on = s.on
  /\ events = <<>> /\ invites = 0 /\ gone = FALSE /\ stopping = FALSE /\ loop = "select" /\ exit = "" /\ taken = <<>>
  /\ pending = FALSE /\ scuttler = "" /\ buf = <<>> /\ hand = [g \in {"loop", "ticker"} |-> <<>>]
  /\ ticker = IF daemon = "siem" THEN "run" ELSE "ended"
  /\ ticks = 0 /\ jobs = <<>>
WatchersNext ==
  \/ Surface \/ Invited \/ Disconnect \/ Signal
  \/ Take \/ SelectDone \/ SelectStop \/ Wait \/ waitWithTimeout \/ Run
  \/ \E g \in {"loop", "ticker"} : HandOver(g)
  \/ \E i \in DOMAIN jobs : Fire(i) \/ Retry(i)
\* Goroutines run, and HTTP requests end by their client's timeout.
WatchersFair ==
  /\ WF_watcherVars(Take \/ SelectDone \/ SelectStop) /\ WF_watcherVars(Wait \/ waitWithTimeout)
  /\ WF_watcherVars(Run) /\ \A g \in {"loop", "ticker"} : WF_watcherVars(HandOver(g))
  /\ WF_watcherVars(\E i \in DOMAIN jobs : Fire(i) \/ Retry(i))

------------------------------------------------------------------------------
(* Properties *)

\* The places an event of the siem daemon can be in.
InBatches(n) == {<<"job", j>> : j \in {i \in DOMAIN jobs : n \in {jobs[i].evs[k] : k \in DOMAIN jobs[i].evs}}}
Places(n) ==
  InBatches(n) \cup {<<"hand", g>> : g \in {h \in DOMAIN hand : n \in {hand[h][k] : k \in DOMAIN hand[h]}}}
    \cup (IF n \in {buf[k] : k \in DOMAIN buf} THEN {<<"buf", 0>>} ELSE {})

\* Every event a daemon took and is meant to report is in exactly one place, the buffer,
\* one batch or one delivery, however Add and the ticker's Flush interleave; and a
\* daemon that lost its connection has reported every delivery when it exits
\* (bridgecmd.go: "reported as failures (never silently dropped)").
Accounted ==
  /\ daemon = "siem" => \A i \in DOMAIN taken : mapEvent(taken[i]) => Cardinality(Places(taken[i].n)) = 1
  /\ daemon = "bridge" => \A i \in DOMAIN taken : Match(taken[i]) => Cardinality(InBatches(taken[i].n)) = 1
  /\ (loop = "left" /\ exit = "done") => \A j \in DOMAIN jobs : jobs[j].report # ""

\* A daemon that lost its connection or was asked to stop exits: its deliveries end,
\* whatever the other system answers.
DaemonEnds == (gone \/ stopping) ~> loop = "left"
=============================================================================
