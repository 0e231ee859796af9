------------------------------ MODULE Adapters ------------------------------
(***************************************************************************)
(* The programs that turn another system's events into alerts for the      *)
(* relay: netherchat-paging, -siem-adapter, -alertmanager, -cicd,          *)
(* -findings-adapter, -agent-adapter, -egress-adapter, -slack-bot and      *)
(* -teams-bot, on the connector library, in front of the relay of Ingest.  *)
(*                                                                         *)
(* One adapter process runs in a behaviour.  An item is what it reads of   *)
(* one event: its severity label, whether its status is the one that opens *)
(* a room, whether it has the name, title or kind it is keyed on, and the  *)
(* time it carries.  A delivery is one webhook request (or one run of a    *)
(* command-line adapter) with its items; its handler can be interleaved    *)
(* with others between any two calls of the relay.  A call can fail before *)
(* or after the relay handled the alert, and a webhook sender repeats what *)
(* was not answered with a 200.                                            *)
(***************************************************************************)
EXTENDS Ingest

CONSTANTS Setups,        \* command lines: [ad, mode, server, source, token, hmac, secret, min]
          Batches,       \* per adapter, the sequences of items it may be sent
          MaxDeliveries, \* bound, per adapter
          MaxRepeats     \* bound: repetitions of one delivery by its sender

ASSUME AdaptersAssumption == (\A a \in DOMAIN MaxDeliveries : MaxDeliveries[a] \in Nat) /\ MaxRepeats \in Nat
\* The programs, and what an item of a delivery says: its severity or status word, whether it
\* asks for a room, whether the fields that name it are there, and its time.
Programs == {"paging", "siem", "alertmanager", "cicd", "findings", "egress", "agent", "slack", "teams"}
Items == [label : STRING, opens : BOOLEAN, named : BOOLEAN, at : Nat]
\* Flags are strings and switches; a sender's batch is a list of items.
ASSUME SetupsAssumption ==
  /\ Setups \subseteq [ad : Programs, mode : STRING, server : BOOLEAN, source : STRING, token : BOOLEAN,
                      hmac : BOOLEAN, secret : BOOLEAN, min : STRING]
  /\ \A p \in Programs : Batches[p] \subseteq Seq(Items)

VARIABLES setup,       \* the adapter process
          deliveries,  \* [items, parses, signed, next, failed, answer, repeats]
          accepted     \* history: <<delivery, item>> the relay answered with a 200
adapterVars == <<setup, deliveries, accepted>>

------------------------------------------------------------------------------
(* connector *)

FirstNonEmpty(a, b) == IF a # "" THEN a ELSE b
SeverityOrder == <<"info", "low", "medium", "high", "critical">>
\* SeverityRank, -1 for a label that is not canonical.
SeverityRank(sev) == IF \E i \in 1..5 : SeverityOrder[i] = sev THEN (CHOOSE i \in 1..5 : SeverityOrder[i] = sev) - 1 ELSE -1
MeetsMin(sev, min) ==
  \/ min = ""
  \/ SeverityRank(sev) < 0 \/ SeverityRank(min) < 0
  \/ SeverityRank(sev) >= SeverityRank(min)
\* Client.Send: the alert as the relay receives it, signed when there is a secret.
AlertOf(i, out) ==
  [source |-> setup.source, payload |-> {out.sev, out.kind}, ts |-> out.ts, n |-> i,
   signed |-> setup.hmac, token |-> setup.token]

------------------------------------------------------------------------------
(* main: what a command line must give for the adapter to start, and the name *)
(* it registers under when none is given.                                     *)

Sourced(s, default) == [s EXCEPT !.source = FirstNonEmpty(@, default)]
\* The default name carries the provider.
SourcedBy(s, names) == IF s.server /\ s.mode \in DOMAIN names THEN {Sourced(s, names[s.mode])} ELSE {}
\* normalizePager: each provider has a second spelling.
normalizePager(mode) ==
  CASE mode \in {"pd", "pagerduty"} -> "pd" [] mode \in {"opsgenie", "og"} -> "opsgenie" [] OTHER -> mode
PagingMain(s) ==
  SourcedBy([s EXCEPT !.mode = normalizePager(@)], [pd |-> "paging-pd", opsgenie |-> "paging-opsgenie"])
SiemMain(s) == SourcedBy(s, [splunk |-> "siem-splunk", sentinel |-> "siem-sentinel"])
AlertmanagerMain(s) == IF s.server THEN {Sourced(s, "alertmanager")} ELSE {}
CicdMain(s) ==
  IF s.mode # "cli" /\ ~s.secret THEN {}
  ELSE SourcedBy(s, [cli |-> "ci-cli", github |-> "ci-github", gitlab |-> "ci-gitlab"])
FindingsMain(s) == IF s.server /\ s.source # "" THEN {s} ELSE {}
EgressMain(s) == IF s.server /\ s.source # "" THEN {s} ELSE {}
AgentMain(s) == IF s.server /\ s.source # "" THEN {s} ELSE {}
\* The bots have a bearer token only.
SlackBotMain(s) == IF s.server /\ s.secret THEN {[Sourced(s, "slack-bot") EXCEPT !.hmac = FALSE, !.min = ""]} ELSE {}
TeamsBotMain(s) == IF s.server /\ s.secret THEN {[Sourced(s, "teams-bot") EXCEPT !.hmac = FALSE, !.min = ""]} ELSE {}

Started(s) ==
  CASE s.ad = "paging" -> PagingMain(s)
    [] s.ad = "siem" -> SiemMain(s)
    [] s.ad = "alertmanager" -> AlertmanagerMain(s)
    [] s.ad = "cicd" -> CicdMain(s)
    [] s.ad = "findings" -> FindingsMain(s)
    [] s.ad = "egress" -> EgressMain(s)
    [] s.ad = "agent" -> AgentMain(s)
    [] s.ad = "slack" -> SlackBotMain(s)
    [] s.ad = "teams" -> TeamsBotMain(s)

------------------------------------------------------------------------------
(* Translation: an item is malformed, ignored, or an alert. *)

Bad == [do |-> "bad", sev |-> "", kind |-> "", ts |-> 0]
Ignored == [Bad EXCEPT !.do = "ignore"]
Out(sev, kind, ts) == [do |-> "send", sev |-> sev, kind |-> kind, ts |-> ts]
\* The providers' vocabularies, severity -> labels; what is not in one of them reads as medium.
PDUrgencies == [critical |-> {"high"}, medium |-> {"low"}]
OGPriorities == [critical |-> {"P1"}, high |-> {"P2"}, medium |-> {"P3"}, low |-> {"P4", "P5"}]
SplunkLabels ==
  [critical |-> {"critical", "fatal", "severe", "5", "6"}, high |-> {"high", "error", "4"},
   medium |-> {"medium", "warn", "warning", "3"}, low |-> {"low", "notice", "2"},
   info |-> {"info", "informational", "information", "debug", "0", "1"}]
SentinelLabels ==
  [critical |-> {"sev0", "critical"}, high |-> {"sev1", "high"}, medium |-> {"sev2", "medium"},
   low |-> {"sev3", "low"}, info |-> {"sev4", "informational", "information", "info"}]
AlertLabels ==
  [critical |-> {"critical", "crit", "page", "fatal"}, high |-> {"high", "warning", "warn"}, medium |-> {"medium"},
   low |-> {"low", "info", "informational", "information", "none"}]
Mapped(table, label) == LET means == {s \in DOMAIN table : label \in table[s]} IN
  IF means = {} THEN "medium" ELSE CHOOSE s \in means : TRUE

mapPDUrgency(u) == Mapped(PDUrgencies, u)
mapOGPriority(p) == Mapped(OGPriorities, p)
mapSplunkSeverity(s) == Mapped(SplunkLabels, s)
mapSentinelSeverity(s) == Mapped(SentinelLabels, s)
mapSeverity(s) == Mapped(AlertLabels, s)

translatePagerDuty(e) ==
  IF ~e.opens THEN Ignored ELSE IF ~e.named THEN Bad ELSE Out(mapPDUrgency(e.label), "page", clock)
translateOpsgenie(e) ==
  IF ~e.opens THEN Ignored ELSE IF ~e.named THEN Bad ELSE Out(mapOGPriority(e.label), "page", clock)
translateSplunk(e) == IF ~e.named THEN Bad ELSE Out(mapSplunkSeverity(e.label), "siem", e.at)
translateSentinel(e) == IF ~e.named THEN Bad ELSE Out(mapSentinelSeverity(e.label), "siem", e.at)
\* Only a firing alert with an alertname crosses; the others are skipped.
translateAlert(e) == IF ~e.opens \/ ~e.named THEN Ignored ELSE Out(mapSeverity(e.label), "prometheus", e.at)
translateFinding(e) == IF e.label = "" THEN Bad ELSE Out(e.label, "security-finding", e.at)
translateEgress(e) == IF e.label = "" THEN Bad ELSE Out(e.label, "egress-signal", e.at)
\* The kind must be one of the four agent events.
translateAgent(e) == IF e.label = "" \/ ~e.named THEN Bad ELSE Out(e.label, "artifact_produced", e.at)

normalizeStatus(s) ==
  IF s \in {"failed", "failure", "error"} THEN "failed" ELSE IF s \in {"passed", "success", "ok"} THEN "passed" ELSE ""
translateCI(status) ==
  IF status = "failed" THEN Out("high", "ci-failure", clock)
  ELSE IF status = "passed" THEN Out("info", "ci-resolved", clock) ELSE Bad
parseGitHub(e) == IF ~e.opens \/ normalizeStatus(e.label) = "" THEN Ignored ELSE translateCI(normalizeStatus(e.label))
parseGitLab(e) == IF normalizeStatus(e.label) = "" THEN Ignored ELSE translateCI(normalizeStatus(e.label))
runCLI(e) == translateCI(normalizeStatus(e.label))

\* Slack's command line is split at its first word.
parseCommand(e) ==
  LET table == [sev1 |-> "critical", sev2 |-> "high", sev3 |-> "medium", incident |-> "high", drill |-> "low"]
  IN IF e.label \in DOMAIN table THEN Out(table[e.label], "command", clock) ELSE Ignored
\* Teams puts a mention of the bot in front of the same commands; it is stripped.
parseTeamsCommand(e) == parseCommand(e)

\* What each handler does with an item.  The severity filter looks at the translated
\* severity, or, in processOne of the three pipes, at the raw label before it is
\* translated.  CI results and commands have none.
AboveMin(out) == IF out.do = "send" /\ ~MeetsMin(out.sev, setup.min) THEN Ignored ELSE out
handlePaging(e) == AboveMin(IF setup.mode = "pd" THEN translatePagerDuty(e) ELSE translateOpsgenie(e))
handleSiem(e) == AboveMin(IF setup.mode = "splunk" THEN translateSplunk(e) ELSE translateSentinel(e))
handleAlertmanager(e) == AboveMin(translateAlert(e))
handleCI(e) == IF setup.mode = "github" THEN parseGitHub(e) ELSE IF setup.mode = "gitlab" THEN parseGitLab(e) ELSE runCLI(e)
processFinding(e) == IF MeetsMin(e.label, setup.min) THEN translateFinding(e) ELSE Ignored
processEgress(e) == IF MeetsMin(e.label, setup.min) THEN translateEgress(e) ELSE Ignored
processAgent(e) == IF MeetsMin(e.label, setup.min) THEN translateAgent(e) ELSE Ignored
handleSlack(e) == parseCommand(e)
handleTeams(e) == parseTeamsCommand(e)

Pipes == {"findings", "egress", "agent"}   \* a line that fails is counted, the rest goes on
Bots == {"slack", "teams"}                 \* whatever happens is told to the person who asked
Decide(e) ==
  CASE setup.ad = "paging" -> handlePaging(e)
    [] setup.ad = "siem" -> handleSiem(e)
    [] setup.ad = "alertmanager" -> handleAlertmanager(e)
    [] setup.ad = "cicd" -> handleCI(e)
    [] setup.ad = "findings" -> processFinding(e)
    [] setup.ad = "egress" -> processEgress(e)
    [] setup.ad = "agent" -> processAgent(e)
    [] setup.ad = "slack" -> handleSlack(e)
    [] setup.ad = "teams" -> handleTeams(e)

------------------------------------------------------------------------------
(* Handlers *)

Delivery(items, parses, signed) ==
  [items |-> items, parses |-> parses, signed |-> signed, next |-> 1, failed |-> 0, answer |-> "", repeats |-> 0]
Deliver(items, parses, signed) ==
  /\ Len(deliveries) < MaxDeliveries[setup.ad]
  /\ setup.ad \in Pipes => parses   \* a line that does not parse is an item without a label
  /\ deliveries' = Append(deliveries, Delivery(items, parses, signed))
  /\ UNCHANGED <<setup, accepted, ingestVars>>

Answer(i, a) == deliveries' = [deliveries EXCEPT ![i].answer = a]
Open(i) == deliveries[i].answer = ""

\* validGitHub, validGitLab and the two validSignature; "signed" stands for a signature
\* that verifies and, for Slack, a timestamp within its skew.
ValidSignature(i) == (setup.ad \in Bots \cup {"cicd"} /\ setup.mode # "cli") => deliveries[i].signed

Refuse(i) ==
  /\ Open(i) /\ deliveries[i].next = 1 /\ deliveries[i].failed = 0
  /\ \/ ~ValidSignature(i) /\ Answer(i, "401")
     \/ ValidSignature(i) /\ ~deliveries[i].parses /\ Answer(i, "400")
  /\ UNCHANGED <<setup, accepted, ingestVars>>

Handling(i) ==
  /\ Open(i) /\ ValidSignature(i) /\ deliveries[i].parses
  /\ deliveries[i].next <= Len(deliveries[i].items)
Item(i) == deliveries[i].items[deliveries[i].next]

\* On to the next item.
Advances(d) == [d EXCEPT !.next = @ + 1]
\* Mutation: an alert that could not be forwarded is skipped like the others.
FailsContinues(d) == Advances(d)
\* What an item that failed does to the whole delivery.
Fails(d) ==
  IF setup.ad \in Pipes THEN [d EXCEPT !.next = @ + 1, !.failed = @ + 1]
  ELSE IF setup.ad \in Bots THEN [d EXCEPT !.answer = "could not open"]
  ELSE [d EXCEPT !.answer = "502"]

Pass(i) ==
  /\ Handling(i) /\ Decide(Item(i)).do = "ignore"
  /\ deliveries' = [deliveries EXCEPT ![i] = Advances(@)]
  /\ UNCHANGED <<setup, accepted, ingestVars>>
Malformed(i) ==
  /\ Handling(i) /\ Decide(Item(i)).do = "bad"
  /\ deliveries' = [deliveries EXCEPT ![i] = IF setup.ad \in Pipes THEN Fails(@) ELSE [@ EXCEPT !.answer = "400"]]
  /\ UNCHANGED <<setup, accepted, ingestVars>>

\* The relay was not reached.
SendLost(i) ==
  /\ Handling(i) /\ Decide(Item(i)).do = "send"
  /\ deliveries' = [deliveries EXCEPT ![i] = Fails(@)]
  /\ UNCHANGED <<setup, accepted, ingestVars>>
\* The relay handled the alert; its reply arrives or is lost.
Send(i, replied) ==
  LET a == AlertOf(i, Decide(Item(i)))
  IN /\ Handling(i) /\ Decide(Item(i)).do = "send" /\ Request
     /\ IF a.source \in DOMAIN cfg.sources THEN alertHandled(a)
        ELSE UNCHANGED <<cfg, clock, limiters, warned, posted, rooms, invited, notices, spawned, served>>
     /\ deliveries' = [deliveries EXCEPT ![i] = IF Accepted(a) /\ replied THEN Advances(@) ELSE Fails(@)]
     /\ accepted' = IF Accepted(a) THEN accepted \cup {<<i, deliveries[i].next>>} ELSE accepted
     /\ UNCHANGED setup

\* Every item is done: 200, or the exit code of a pipe.
Finish(i) ==
  /\ Open(i) /\ ValidSignature(i) /\ deliveries[i].parses /\ deliveries[i].next > Len(deliveries[i].items)
  /\ Answer(i, IF deliveries[i].failed = 0 THEN "200" ELSE "exit 1")
  /\ UNCHANGED <<setup, accepted, ingestVars>>

\* A webhook sender repeats a request that failed.
Repeat(i) ==
  /\ deliveries[i].answer = "502" /\ deliveries[i].repeats < MaxRepeats
  /\ deliveries' = [deliveries EXCEPT ![i] = [Delivery(@.items, @.parses, @.signed) EXCEPT !.repeats = deliveries[i].repeats + 1]]
  /\ UNCHANGED <<setup, accepted, ingestVars>>

AdaptersInit == setup \in UNION {Started(s) : s \in Setups} /\ deliveries = <<>> /\ accepted = {}
AdaptersNext ==
  \/ \E b \in Batches[setup.ad], parses, signed \in BOOLEAN : Deliver(b, parses, signed)
  \/ \E i \in DOMAIN deliveries :
       \/ Refuse(i) \/ Pass(i) \/ Malformed(i) \/ SendLost(i) \/ Finish(i) \/ Repeat(i)
       \/ \E replied \in BOOLEAN : Send(i, replied)
  \/ Elapse /\ UNCHANGED adapterVars

------------------------------------------------------------------------------
(* Properties *)

\* The severity an adapter reads in an event; "" for one that has none.
SeverityOf(e) ==
  CASE setup.ad = "paging" -> IF setup.mode = "pd" THEN mapPDUrgency(e.label) ELSE mapOGPriority(e.label)
    [] setup.ad = "siem" -> IF setup.mode = "splunk" THEN mapSplunkSeverity(e.label) ELSE mapSentinelSeverity(e.label)
    [] setup.ad = "alertmanager" -> mapSeverity(e.label)
    [] OTHER -> e.label
BelowMinimum(e) ==
  /\ setup.min # "" /\ SeverityRank(SeverityOf(e)) >= 0
  /\ SeverityRank(SeverityOf(e)) < SeverityRank(setup.min)
\* The labels an adapter knows: its provider's, or the canonical five.
Vocabulary ==
  CASE setup.ad = "paging" /\ setup.mode = "pd" -> PDUrgencies
    [] setup.ad = "paging" /\ setup.mode # "pd" -> OGPriorities
    [] setup.ad = "siem" /\ setup.mode = "splunk" -> SplunkLabels
    [] setup.ad = "siem" /\ setup.mode # "splunk" -> SentinelLabels
    [] setup.ad = "alertmanager" -> AlertLabels
    [] OTHER -> [canonical |-> {SeverityOrder[i] : i \in DOMAIN SeverityOrder}]
Recognised(e) == \E s \in DOMAIN Vocabulary : e.label \in Vocabulary[s]

\* What an adapter may leave out of the alerts it forwards: an event that opens nothing,
\* one it has no name for, one whose label is known to be below the minimum; a CI status
\* or a command it does not know.
MayOmit(e) ==
  \/ ~e.opens \/ ~e.named
  \/ setup.ad = "cicd" /\ normalizeStatus(e.label) = ""
  \/ setup.ad \in Bots /\ parseCommand(e).do = "ignore"
  \/ Recognised(e) /\ BelowMinimum(e)
\* What it leaves out besides: a label it does not know has become "medium" by the time the
\* minimum is looked at.
ReadAsMedium(e) == ~Recognised(e) /\ BelowMinimum(e)
LeftOut(e) == MayOmit(e) \/ ReadAsMedium(e)

\* When the sender is told all went well, the relay has accepted every event of the delivery
\* that its filters do not leave out, whatever failed, was repeated or interleaved; a
\* sender told otherwise can repeat it.
NothingSwallowed ==
  \A i \in DOMAIN deliveries : deliveries[i].answer = "200" =>
    \A j \in DOMAIN deliveries[i].items : LeftOut(deliveries[i].items[j]) \/ <<i, j>> \in accepted

\* severity.go:25: "a detection adapter must never silently swallow an alert because of an
\* unexpected severity label": what is answered with a 200 and not forwarded was left out for
\* a reason the adapter knows.
UnknownSurfaced ==
  \A i \in DOMAIN deliveries : deliveries[i].answer = "200" =>
    \A j \in DOMAIN deliveries[i].items : MayOmit(deliveries[i].items[j]) \/ <<i, j>> \in accepted
=============================================================================
