----------------------------- MODULE LiveBridge ------------------------------
(***************************************************************************)
(* The Discord bot beside its database poll, composed: the feed's settings *)
(* and routes, the batches it posts, the channel's topic, the notices on   *)
(* the gateway link, and the channel that commands are restricted to.  The *)
(* modules abstract what they use of each other (a batch meets a feed that *)
(* is on or off, and a lock that the topic holds or not), so that a        *)
(* behaviour follows one of them and leaves the others as they start.      *)
(***************************************************************************)
EXTENDS FeedRoutes, FeedBatches, FeedTopic, FeedLink, CommandGate

VARIABLE part

vars == <<part, routeVars, batchVars, topicVars, linkVars, gateVars>>

Init ==
  /\ part \in {"routes", "batches", "topic", "link", "gate"}
  /\ RoutesInit /\ BatchesInit /\ TopicInit /\ LinkInit /\ GateInit
  \* one initial state of the parts that are not followed
  /\ part # "routes" => default \in {CHOOSE d \in Defaults : TRUE}
  /\ part # "topic" => feedChannel = NoChannel
  /\ part # "link" => heard
  /\ part # "gate" => gate = AnyChannel

\* A step of part p, which leaves the others alone.
Only(p, step) ==
  /\ part = p /\ part' = part
  /\ step
  /\ IF p = "routes" THEN TRUE ELSE UNCHANGED routeVars
  /\ IF p = "batches" THEN TRUE ELSE UNCHANGED batchVars
  /\ IF p = "topic" THEN TRUE ELSE UNCHANGED topicVars
  /\ IF p = "link" THEN TRUE ELSE UNCHANGED linkVars
  /\ IF p = "gate" THEN TRUE ELSE UNCHANGED gateVars

Next ==
  \/ Only("routes", RoutesStep)
  \/ Only("batches", BatchesStep)
  \/ Only("topic", TopicStep)
  \/ Only("link", LinkStep)
  \/ Only("gate", GateStep)

Spec == Init /\ [][Next]_vars

\* The loops are tasks, which go on unless they wait, and every answer of the
\* database and of Discord comes.  Inner's lock goes to its waiters in the
\* order they came.  The side loop ticks every few seconds; some of its reads
\* of the numbers succeed, and Discord takes some of its edits within the
\* minute they are made in.
Fairness ==
  /\ WF_vars(Only("batches", FeedSteps))
  /\ SF_vars(Only("batches", DropRepeats \/ MoveFeedCursor))
  /\ WF_vars(Only("batches", TopicDone))
  /\ WF_vars(Only("topic", MinutePasses /\ due'))
  /\ WF_vars(Only("topic", NotDue \/ ReadFeedChannel(Tick)))
  /\ WF_vars(Only("topic", \E u \in Updaters : Edited(u) \/ EditFails(u)))
  /\ SF_vars(Only("topic", \E u \in Updaters : Edited(u) /\ text[u] = "current"))
  /\ SF_vars(Only("topic", \E u \in Updaters : (NoTopic(u) \/ UpToDate(u)) /\ Update(u)))
  /\ SF_vars(Only("topic", \E u \in Updaters : BeginEdit(u) /\ Update(u)))
  /\ WF_vars(Only("link", GraceEnds \/ CheckUp \/ CheckDown))
  /\ WF_vars(Only("link", WatcherReads \/ WatcherPosts))
  /\ WF_vars(Only("link", HeraldReads \/ HeraldPosts))

FairSpec == Spec /\ Fairness

-----------------------------------------------------------------------------
(* Properties.                                                             *)

\* What the bot keeps is what it was told, the row of every kind and the
\* channel for commands, with the exceptions that the two modules name; and
\* a feed that was removed posts nothing.
SettingsAccounted == RoutesAccounted /\ RemovedIsSilent /\ GateAccounted

\* Nothing that the feed waits for stops it for good: batches are posted, the
\* topic follows the feed's channel, and the notices follow the link.
FeedKeepsUp ==
  /\ BatchesMoveOn
  /\ part = "topic" => TopicFollows
  /\ part = "link" => NoticesSettle
=============================================================================
