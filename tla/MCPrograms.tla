----------------------------- MODULE MCPrograms -----------------------------
(***************************************************************************)
(* Seven parts that share no state, checked for safety in one run:         *)
(* approval of an artifact, sealed records, the signed roster, identity    *)
(* attestations, alert ingestion, the adapters in front of it, and the     *)
(* terminal program.  A behaviour belongs to the part its initial state    *)
(* names.                                                                  *)
(***************************************************************************)
EXTENDS MCArtifactQuorum, RecordSeal, RosterRound, RoomView, Adapters, MCApp

CONSTANT Parts
VARIABLE part

------------------------------------------------------------------------------
(* Sealed records: entries with and without a proposal, typed and untyped *)

Body(pid, nonce, proposer) ==
  [parses |-> TRUE, pid |-> pid, nonce |-> nonce, proposer |-> proposer, hash |-> "h"]
Text == Body("", "", "")
MCEntrySpecs ==
  { [kind |-> "decision", body |-> Text, schema |-> ""],
    [kind |-> "artifact", body |-> Body("p1", "n", "bob"), schema |-> ""],
    [kind |-> "artifact", body |-> Body("p2", "", "alice"), schema |-> ""],
    [kind |-> "artifact", body |-> Body("", "n", "alice"), schema |-> ""],
    [kind |-> "typed", body |-> Text, schema |-> "s"],
    [kind |-> "typed", body |-> Text, schema |-> ""] }

------------------------------------------------------------------------------
(* The room's people: one whose key may be pinned under the name she typed *)

MCHandle == [s \in {"s1", "s2"} |-> IF s = "s1" THEN "ann" ELSE "bob"]
MCTrusts == {[h \in {"ann"} |-> s] : s \in {"s1", "s2"}}

------------------------------------------------------------------------------
(* Ingestion: a relay for direct callers, one behind the adapters, two refused files *)

Source(hmac, token, fresh, rate) ==
  [hmac |-> hmac, token |-> token, requireFresh |-> fresh, rate |-> rate, spawn |-> 0, window |-> 0, skew |-> 0]
Rule(match) == [action |-> "break-glass", match |-> match, invite |-> {"ann"}, ttl |-> 0]
Hook(on, token, rate) == [webhook |-> on, token |-> token, rate |-> rate, spawn |-> 0]
File(sources, routes, hooks) ==
  [sources |-> sources, routes |-> routes, rooms |-> hooks, window |-> 0, skew |-> 0, tls |-> FALSE,
   webhook |-> [rate |-> 0, spawn |-> 0, unauth |-> 0]]
DirectFile ==
  File([scan |-> Source(TRUE, FALSE, TRUE, 0), bot |-> Source(FALSE, TRUE, FALSE, 1)],
       <<[Rule({"critical"}) EXCEPT !.action = "page"], Rule({"critical"})>>,
       [ops |-> Hook(TRUE, "t", 0), lab |-> Hook(TRUE, "t", 1), off |-> Hook(FALSE, "", 0)])
Chats == {"slack-bot", "teams-bot"}
AdaptedFile ==
  File([s \in {"paging-pd", "paging-opsgenie", "siem-splunk", "siem-sentinel", "alertmanager",
                    "ci-github", "ci-gitlab", "ci-cli", "feed"} \cup Chats |->
          Source(s \notin Chats, s \in Chats, FALSE, 0)],
       <<Rule({"critical"}), Rule({"high"})>>, [off |-> Hook(FALSE, "", 0)])
MCRawConfigs ==
  {DirectFile, AdaptedFile, [DirectFile EXCEPT !.tls = TRUE],
   [DirectFile EXCEPT !.sources.bot.requireFresh = TRUE]}
MCPayloads == {{"critical"}, {"text"}}

------------------------------------------------------------------------------
(* Adapters: each of them, set up well and badly; what senders deliver *)

Setup(ad, mode, source, min) ==
  [ad |-> ad, mode |-> mode, server |-> TRUE, source |-> source, token |-> TRUE, hmac |-> TRUE,
   secret |-> TRUE, min |-> min]
MCSetups ==
  { Setup("paging", "pd", "", "high"), Setup("paging", "og", "", ""), Setup("paging", "x", "", ""),
    Setup("siem", "splunk", "", "high"), Setup("siem", "sentinel", "", "low"),
    Setup("alertmanager", "", "", "high"), [Setup("alertmanager", "", "", "") EXCEPT !.server = FALSE],
    Setup("cicd", "github", "", ""), Setup("cicd", "gitlab", "", ""), Setup("cicd", "cli", "", ""),
    [Setup("cicd", "github", "", "") EXCEPT !.secret = FALSE],
    Setup("findings", "", "feed", "high"), Setup("egress", "", "feed", "high"),
    Setup("agent", "", "feed", "high"), Setup("agent", "", "", ""),
    Setup("slack", "", "", ""), Setup("teams", "", "nobody", "") }
Event_(label, opens, named) == [label |-> label, opens |-> opens, named |-> named, at |-> 1]
Single(labels) ==
  {<<Event_(l, TRUE, TRUE)>> : l \in labels} \cup {<<Event_("high", FALSE, TRUE)>>, <<Event_("high", TRUE, FALSE)>>}
Pairs(labels) ==
  {<<Event_(l, TRUE, TRUE), Event_(k, TRUE, TRUE)>> : l, k \in labels} \cup
  {<<Event_("high", FALSE, TRUE), Event_("high", TRUE, FALSE), Event_("page", TRUE, TRUE)>>}
MCBatches ==
  [paging |-> {<<Event_("high", TRUE, TRUE)>>, <<Event_("P5", TRUE, TRUE)>>, <<Event_("P1", TRUE, FALSE)>>}, siem |-> Single({"critical", "sev4", "odd"}),
   alertmanager |-> Pairs({"warning", "info"}), cicd |-> Single({"failure", "ok", "queued"}),
   findings |-> Pairs({"high", "odd", ""}), egress |-> Pairs({"high", "odd", ""}),
   agent |-> Pairs({"high", "odd", ""}), slack |-> Single({"sev1", "drill"}), teams |-> Single({"sev1", "drill"})]
MCDeliveries == [ad \in DOMAIN MCBatches |-> IF ad = "paging" THEN 2 ELSE 1]

------------------------------------------------------------------------------
(* The terminal program: what an operator types, and the macros of a configuration *)

Bare(typed, arrivals, emits) == Sitting([n \in {} |-> <<>>], typed, arrivals, emits)
\* Pieces of a macro: commands there are and are not, with and without a slash, and none at all.
MCPieces ==
  {Line(n, "") : n \in {"wrap", "also", "mark", "nosuch", ""}} \cup {Spaced("mark"), Plain("mark"), Plain("nosuch"), Blank}
MCSittings ==
  { Bare(<<Line("join", "b"), Line("leave", ""), Line("join", "b")>>, {"message"}, 1),
    Sitting([n \in {"wrap"} |-> <<Line("decide", "x"), Line("leave", "")>>],
            <<Line("join", "b"), Line("wrap", "")>>, {"message", "vanish"}, 2),
    Bare(<<Line("clock", "start"), Line("ttl", "good"), Line("clock", "stop"), Plain("ctrl+c")>>,
          {"clockStart", "clockStop"}, 2),
    Bare(<<Line("seal", ""), Line("leave", "")>>, {"message"}, 1),
    Bare(<<Line("break-glass", ""), Plain("good morning")>>, {"breakGlass", "key"}, 2),
    Bare(<<Line("stream", "log"), Line("scuttle", ""), Line("quit", "")>>, {"key", "update", "scuttle"}, 2) }
  \cup {Sitting([n \in {"wrap", "also"} |-> IF n = "wrap" THEN <<x, Line("mark", "")>> ELSE y],
                <<Line("also", "")>>, {}, 1) : x \in MCPieces, y \in {<<p>> : p \in MCPieces} \cup {<<Blank, Blank>>}}

------------------------------------------------------------------------------
signedVars == <<recordVars, rosterVars, roomVars>>
alertVars == <<ingestVars, adapterVars>>
partVars == <<vars, signedVars, alertVars, appVars>>

\* A part that is not run stays in one of its initial states.
AllInit ==
  /\ part \in Parts /\ Init /\ RecordInit /\ RosterInit /\ RoomInit /\ IngestInit /\ AdaptersInit /\ AppInit
  /\ part # "identity" => use = "room" /\ pins = {}
  /\ pins # {"i2"}                               \* the two issuers are alike
  /\ trust["ann"] = "s1" <=> pins = {}
  /\ cfg = normalize(IF part = "adapters" THEN AdaptedFile ELSE DirectFile)
  /\ part # "adapters" => setup.ad = "slack"
  /\ part # "app" => input.lines = <<Line("seal", ""), Line("leave", "")>>
AllNext ==
  /\ UNCHANGED part
  /\ \/ part = "approval" /\ Next /\ UNCHANGED <<signedVars, alertVars, appVars>>
     \/ part = "record" /\ RecordNext /\ UNCHANGED <<vars, rosterVars, roomVars, alertVars, appVars>>
     \/ part = "roster" /\ RosterNext /\ UNCHANGED <<vars, recordVars, roomVars, alertVars, appVars>>
     \/ part = "identity" /\ RoomNext /\ UNCHANGED <<vars, recordVars, rosterVars, alertVars, appVars>>
     \/ part = "ingest" /\ IngestNext /\ UNCHANGED <<vars, signedVars, adapterVars, appVars>>
     \/ part = "adapters" /\ AdaptersNext /\ UNCHANGED <<vars, signedVars, appVars>>
     \/ part = "app" /\ AppNext /\ UNCHANGED <<vars, signedVars, alertVars>>
AllSpec == AllInit /\ [][AllNext]_<<part, partVars>>
=============================================================================
