----------------------------- MODULE MCClientIO -----------------------------
(***************************************************************************)
(* Five parts of the clients that do not share state and that must all     *)
(* come to an end, checked in one run: a behaviour belongs to the part its *)
(* initial state names.                                                    *)
(***************************************************************************)
EXTENDS FileTransfer, ClientClose, Sneakernet, Watchers, ActionQuorum

CONSTANTS r1, r2, host, guest, p, a, Parts

VARIABLE part
partVars == <<fileVars, closeVars, sneakerVars, watcherVars, actionVars>>

\* What a daemon's room gets to see: events of people and of the daemon itself, live and
\* replayed on a reconnect.
Seen(k, by, self, replayed, record) ==
  [k |-> k, by |-> by, self |-> self, replayed |-> replayed, record |-> record]
MCFeeds ==
  { <<Seen("alert", "relay", FALSE, FALSE, FALSE), Seen("seal", "ann", FALSE, FALSE, TRUE),
      Seen("scuttle", "ann", FALSE, FALSE, FALSE)>>,
    <<Seen("decision", "ann", FALSE, FALSE, FALSE), Seen("decision", "ann", FALSE, TRUE, FALSE),
      Seen("ack", "bot", TRUE, FALSE, FALSE)>>,
    <<Seen("join", "ann", FALSE, FALSE, FALSE), Seen("ack", "bot", TRUE, FALSE, FALSE),
      Seen("seal", "ann", FALSE, FALSE, FALSE)>> }
MCCommands ==
  [daemon : {"bridge", "slack", "teams", "itsm", "siem"}, room : {TRUE}, dest : BOOLEAN,
   on : {{}, {"decision", "ack", "scuttle"}, {"open", "seal", "scuttle"}}, kind : {"jira", "splunk"}]

\* Every client of an action has an identity of its own.
OwnIdentity == [c \in Clients |-> c]

\* A part that is not run stays in one initial state, in which none of the actions its
\* fairness is about is enabled.
AllInit ==
  /\ part \in Parts /\ FileInit /\ CloseInit /\ SneakerInit /\ WatchersInit /\ ActionInit
  /\ part # "watchers" => /\ daemon = "bridge" /\ on = {"decision", "ack", "scuttle"}
                          /\ feed = CHOOSE f \in MCFeeds : TRUE
AllNext ==
  \/ part = "file" /\ FileNext /\ UNCHANGED <<part, closeVars, sneakerVars, watcherVars, actionVars>>
  \/ part = "close" /\ CloseNext /\ UNCHANGED <<part, fileVars, sneakerVars, watcherVars, actionVars>>
  \/ part = "sneakernet" /\ SneakerNext /\ UNCHANGED <<part, fileVars, closeVars, watcherVars, actionVars>>
  \/ part = "watchers" /\ WatchersNext /\ UNCHANGED <<part, fileVars, closeVars, sneakerVars, actionVars>>
  \/ part = "action" /\ ActionNext /\ UNCHANGED <<part, fileVars, closeVars, sneakerVars, watcherVars>>
\* Each part's own fairness, while it is the part being run.
AllSpec ==
  /\ AllInit /\ [][AllNext]_<<part, partVars>>
  /\ FileFair /\ CloseFair /\ SneakerFair /\ WatchersFair /\ ActionFair
=============================================================================
