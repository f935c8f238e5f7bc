-------------------------- MODULE NotificationCenter --------------------------
(***************************************************************************)
(* The notification center (pkg/notifier): a config map names channels and *)
(* how each wants to be notified; an informer's goroutine copies it into   *)
(* the map Notifiers, one channel at a time and under a lock; the worker   *)
(* that reconciles experiments ranges over the same map in Notify, without *)
(* the lock, and posts to each channel that wants the message.             *)
(***************************************************************************)
EXTENDS Naturals

CONSTANTS
  Channels,   \* names of channels
  Texts,      \* what a user may write for a channel
  Notices,    \* events of experiments the worker reports
  None,       \* absent: no text, no notifier, no config map
  MaxEdits,   \* bound: edits of the config map
  MaxGaps,    \* bound: deletions while the informer's watch is down
  MaxThrows,  \* bound: crashes on the map shared without a lock
  MaxHangs    \* bound: endpoints that stop answering

Levels == {"verbose", "normal", "warning", "error"}

\* Labels are sets of key-value pairs; no namespace means every namespace.
Namespaces == {text.namespace : text \in Texts} \ {None}
Urls == {text.url : text \in Texts}

ASSUME CenterAssumption ==
  /\ \A text \in Texts :
       DOMAIN text = {"notifier", "level", "namespace", "labels", "url"}
  /\ {MaxEdits, MaxGaps, MaxThrows, MaxHangs} \subseteq Nat

VARIABLES
  configMap,  \* channel -> text at the API server, or None
  seen,       \* the version the informer handed to the handler last
  Notifiers,  \* channel -> the configuration in the map, or None
  handler,    \* the handler: what it does, for which version, names it has not come to
  sending,    \* Notify: see below
  hung,       \* endpoints that do not answer
  budget      \* what the environment may still do

vars == <<configMap, seen, Notifiers, handler, sending, hung, budget>>

NoChannels == [ch \in Channels |-> None]

-----------------------------------------------------------------------------
(* Configurations.                                                         *)

\* validateAndSetDefault; a text that is no YAML stands for one without a notifier.
Valid(text) == text.notifier = "slack" /\ text.level \in Levels \cup {""}

Parsed(text) == [text EXCEPT !.level = IF @ = "" THEN "normal" ELSE @]

Configs == {Parsed(text) : text \in {t \in Texts : Valid(t)}}

ConfigMaps == [Channels -> Texts \cup {None}]

ASSUME NoneAssumption == None \notin Texts \cup Configs \cup ConfigMaps \cup Notices

LevelInt(level) ==
  CASE level = "error" -> 4 [] level = "warning" -> 3
    [] level = "normal" -> 2 [] level = "verbose" -> 1

ReasonSeverity(reason) ==
  CASE reason = "ExperimentCompleted" -> 5
    [] reason \in {"TargetsError", "SyncMetricsError", "RoutingRulesError",
                   "AnalyticsServiceError", "ActionPause"} -> 4
    [] reason \in {"TargetsFound", "AnalyticsServiceRunning", "IterationUpdate",
                   "SyncMetricsSucceeded", "RoutingRulesReady"} -> 1
    [] OTHER -> 0

\* Faulty variant: a message of the channel's own level is dropped.
WantsMoreSevere(config, notice) ==
  /\ ReasonSeverity(notice.reason) > LevelInt(config.level)
  /\ config.namespace \in {None, notice.namespace}
  /\ config.labels \subseteq notice.labels

\* The filters of Notify: severity, namespace, labels.
Wants(config, notice) ==
  /\ ReasonSeverity(notice.reason) >= LevelInt(config.level)
  /\ config.namespace \in {None, notice.namespace}
  /\ config.labels \subseteq notice.labels

-----------------------------------------------------------------------------
(* Notify.  A range over a Go map produces every entry that was there when *)
(* it began and still is (owed), and may or may not produce the ones that  *)
(* were added meanwhile (extra).  posted counts the posts to each channel; *)
(* steady is the configuration a channel has had ever since Notify began.  *)

Resting == [pc |-> "idle", notice |-> None, url |-> None, owed |-> {}, extra |-> {},
            posted |-> [ch \in Channels |-> 0], steady |-> NoChannels]

Present == {ch \in Channels : Notifiers[ch] # None}

\* A Notify without notifiers returns at once.
StartNotify(notice) ==
  /\ sending.pc = "idle"
  /\ Present # {}
  /\ sending' = [Resting EXCEPT !.pc = "range", !.notice = notice, !.owed = Present,
                                !.steady = Notifiers]
  /\ UNCHANGED <<configMap, seen, Notifiers, handler, hung, budget>>

\* Faulty variant: a channel that does not want the message is tried again.
ReachAgain(ch) ==
  /\ sending.pc = "range"
  /\ ch \in sending.owed \cup sending.extra
  /\ Wants(Notifiers[ch], sending.notice)
  /\ sending' = [sending EXCEPT !.owed = @ \ {ch}, !.extra = @ \ {ch}, !.pc = "post",
                                !.posted[ch] = @ + 1, !.url = Notifiers[ch].url]
  /\ UNCHANGED <<configMap, seen, Notifiers, handler, hung, budget>>

\* The range produces a channel; it is passed over or posted to.
Reach(ch) ==
  /\ sending.pc = "range"
  /\ ch \in sending.owed \cup sending.extra
  /\ LET config == Notifiers[ch]
         next == [sending EXCEPT !.owed = @ \ {ch}, !.extra = @ \ {ch}]
     IN sending' = IF Wants(config, sending.notice)
                     THEN [next EXCEPT !.pc = "post", !.url = config.url,
                                       !.posted = [@ EXCEPT ![ch] = sending.posted[ch] + 1]]
                     ELSE next
  /\ UNCHANGED <<configMap, seen, Notifiers, handler, hung, budget>>

\* http.Post returns, with an answer or an error, unless the endpoint hangs: the
\* client has no timeout.  An error is logged.
PostReturns ==
  /\ sending.pc = "post"
  /\ sending.url \notin hung
  /\ sending' = [sending EXCEPT !.pc = "range", !.url = None]
  /\ UNCHANGED <<configMap, seen, Notifiers, handler, hung, budget>>

FinishNotify ==
  /\ sending.pc = "range"
  /\ sending.owed = {}
  /\ sending' = Resting
  /\ UNCHANGED <<configMap, seen, Notifiers, handler, hung, budget>>

-----------------------------------------------------------------------------
(* The handler.                                                            *)

AtRest == [pc |-> "idle", data |-> NoChannels, todo |-> {}]
DataOf(cm) == IF cm = None THEN NoChannels ELSE cm
Named(data) == {ch \in Channels : data[ch] # None}

\* Faulty variant: there is no handler for a deletion.
DeliverNoDeletion ==
  /\ handler.pc = "idle"
  /\ seen # configMap /\ configMap # None
  /\ seen' = configMap
  /\ handler' = [pc |-> "update", data |-> configMap, todo |-> Named(configMap)]
  /\ UNCHANGED <<configMap, Notifiers, sending, hung, budget>>

\* AddFunc, UpdateFunc (for data that differ) and DeleteFunc: take the lock and go
\* through the data, then through the map; a deletion only does the latter.
Deliver ==
  /\ handler.pc = "idle"
  /\ seen # configMap
  /\ seen' = configMap
  /\ handler' = [pc |-> IF configMap = None THEN "remove" ELSE "update",
                 data |-> DataOf(configMap),
                 todo |-> IF configMap = None THEN Present ELSE Named(DataOf(configMap))]
  /\ UNCHANGED <<configMap, Notifiers, sending, hung, budget>>

\* What a write of one entry means to a range under way.
Overwritten(ch) ==
  sending' = IF sending.pc = "idle" THEN sending
             ELSE [sending EXCEPT !.steady[ch] = None,
                                  !.extra = IF Notifiers[ch] = None THEN @ \cup {ch} ELSE @]
Deleted(ch) ==
  sending' = IF sending.pc = "idle" THEN sending
             ELSE [sending EXCEPT !.steady[ch] = None, !.owed = @ \ {ch}, !.extra = @ \ {ch}]

\* Faulty variant: the level is not checked.
UpdateChannelAnyLevel(ch) ==
  /\ handler.pc = "update"
  /\ ch \in handler.todo
  /\ handler' = [handler EXCEPT !.todo = @ \ {ch}]
  /\ IF handler.data[ch].notifier = "slack"
       THEN /\ Notifiers' = [Notifiers EXCEPT ![ch] = Parsed(handler.data[ch])]
            /\ Overwritten(ch)
       ELSE UNCHANGED <<Notifiers, sending>>
  /\ UNCHANGED <<configMap, seen, hung, budget>>

\* Faulty variant: an invalid text ends the handler, the lock is released.
UpdateChannelOrReturn(ch) ==
  /\ handler.pc = "update"
  /\ ch \in handler.todo
  /\ IF Valid(handler.data[ch])
       THEN /\ Notifiers' = [Notifiers EXCEPT ![ch] = Parsed(handler.data[ch])]
            /\ Overwritten(ch)
            /\ handler' = [handler EXCEPT !.todo = @ \ {ch}]
       ELSE UNCHANGED <<Notifiers, sending>> /\ handler' = AtRest
  /\ UNCHANGED <<configMap, seen, hung, budget>>

\* One name of the data: skipped with an error when its text is invalid, else put
\* in the map, changed or not: the code compares a notifier with a configuration.
UpdateChannel(ch) ==
  /\ handler.pc = "update"
  /\ ch \in handler.todo
  /\ handler' = [handler EXCEPT !.todo = @ \ {ch}]
  /\ IF Valid(handler.data[ch])
       THEN /\ Notifiers' = [Notifiers EXCEPT ![ch] = Parsed(handler.data[ch])]
            /\ Overwritten(ch)
       ELSE UNCHANGED <<Notifiers, sending>>
  /\ UNCHANGED <<configMap, seen, hung, budget>>

\* The loop over the map begins.
BeginRemoval ==
  /\ handler.pc = "update"
  /\ handler.todo = {}
  /\ handler' = [handler EXCEPT !.pc = "remove", !.todo = Present]
  /\ UNCHANGED <<configMap, seen, Notifiers, sending, hung, budget>>

\* One name of the map: deleted unless the data name it.
RemoveChannel(ch) ==
  /\ handler.pc = "remove"
  /\ ch \in handler.todo
  /\ handler' = [handler EXCEPT !.todo = @ \ {ch}]
  /\ IF handler.data[ch] = None
       THEN Notifiers' = [Notifiers EXCEPT ![ch] = None] /\ Deleted(ch)
       ELSE UNCHANGED <<Notifiers, sending>>
  /\ UNCHANGED <<configMap, seen, hung, budget>>

EndHandler ==
  /\ handler.pc = "remove"
  /\ handler.todo = {}
  /\ handler' = AtRest
  /\ UNCHANGED <<configMap, seen, Notifiers, sending, hung, budget>>

-----------------------------------------------------------------------------
(* Crashes of the process: the map and the informer's store are gone.      *)

Restart ==
  /\ Notifiers' = NoChannels
  /\ seen' = None
  /\ handler' = AtRest
  /\ sending' = Resting

\* The handler is about to write an entry.
Writing ==
  \E ch \in handler.todo :
    \/ handler.pc = "update" /\ Valid(handler.data[ch])
    \/ handler.pc = "remove" /\ handler.data[ch] = None

\* A step of the range that meets a write of the map makes the Go runtime stop the
\* process ("concurrent map iteration and map write").
MapRace ==
  /\ budget.throws > 0
  /\ sending.pc = "range"
  /\ Writing
  /\ budget' = [budget EXCEPT !.throws = @ - 1]
  /\ Restart
  /\ UNCHANGED <<configMap, hung>>

\* A deletion missed while the watch was down is delivered as a tombstone, which
\* FilterFunc takes for a config map: its type assertion panics.
DeliverTombstone ==
  /\ budget.gaps > 0
  /\ handler.pc = "idle"
  /\ seen # None /\ configMap = None
  /\ budget' = [budget EXCEPT !.gaps = @ - 1]
  /\ Restart
  /\ UNCHANGED <<configMap, hung>>

-----------------------------------------------------------------------------
(* Users and endpoints.                                                    *)

EditConfigMap(cm) ==
  /\ budget.edits > 0
  /\ cm # configMap
  /\ configMap' = cm
  /\ budget' = [budget EXCEPT !.edits = @ - 1]
  /\ UNCHANGED <<seen, Notifiers, handler, sending, hung>>

Hang(url) ==
  /\ budget.hangs > 0
  /\ url \notin hung
  /\ hung' = hung \cup {url}
  /\ budget' = [budget EXCEPT !.hangs = @ - 1]
  /\ UNCHANGED <<configMap, seen, Notifiers, handler, sending>>

Recover(url) ==
  /\ url \in hung
  /\ hung' = hung \ {url}
  /\ UNCHANGED <<configMap, seen, Notifiers, handler, sending, budget>>

-----------------------------------------------------------------------------
Init ==
  /\ configMap \in ConfigMaps \cup {None}
  /\ seen = None
  /\ Notifiers = NoChannels
  /\ handler = AtRest
  /\ sending = Resting
  /\ hung = {}
  /\ budget = [edits |-> MaxEdits, gaps |-> MaxGaps, throws |-> MaxThrows, hangs |-> MaxHangs]

Handler ==
  \/ Deliver \/ BeginRemoval \/ EndHandler
  \/ \E ch \in Channels : UpdateChannel(ch) \/ RemoveChannel(ch)

Notify ==
  \/ \E ch \in Channels : Reach(ch)
  \/ PostReturns \/ FinishNotify

Next ==
  \/ \E notice \in Notices : StartNotify(notice)
  \/ Notify
  \/ Handler
  \/ MapRace \/ DeliverTombstone
  \/ \E cm \in ConfigMaps \cup {None} : EditConfigMap(cm)
  \/ \E url \in Urls : Hang(url) \/ Recover(url)

Spec == Init /\ [][Next]_vars

\* Both goroutines run on, and the informer delivers.  Nobody is bound to edit, and
\* no endpoint is bound to recover.
FairSpec == Spec /\ WF_vars(Handler) /\ WF_vars(Notify)

-----------------------------------------------------------------------------
(* Properties.                                                             *)

(***************************************************************************)
(* Every variable holds a value of its type; a range only comes to entries *)
(* that are in the map.                                                    *)
(***************************************************************************)
TypeOK ==
  /\ configMap \in ConfigMaps \cup {None} /\ seen \in ConfigMaps \cup {None}
  /\ Notifiers \in [Channels -> Configs \cup {None}]
  /\ handler \in [pc : {"idle", "update", "remove"}, data : ConfigMaps, todo : SUBSET Channels]
  /\ sending \in [pc : {"idle", "range", "post"}, notice : Notices \cup {None},
                  url : Urls \cup {None}, owed : SUBSET Channels, extra : SUBSET Channels,
                  posted : [Channels -> Nat], steady : [Channels -> Configs \cup {None}]]
  /\ sending.owed \cup sending.extra \subseteq Present
  /\ hung \subseteq Urls

(***************************************************************************)
(* Whenever the handler rests, the map is what the config map it saw last  *)
(* says: a valid text is in effect, a name that is gone is out, whatever   *)
(* was there before and wherever a crash hit.  A channel whose text is     *)
(* invalid may keep an earlier configuration.                              *)
(***************************************************************************)
FollowsConfigMap ==
  handler.pc = "idle" =>
    \A ch \in Channels :
      LET text == DataOf(seen)[ch] IN
      /\ text = None => Notifiers[ch] = None
      /\ text # None /\ Valid(text) => Notifiers[ch] = Parsed(text)

(***************************************************************************)
(* A Notify that ends has posted exactly once to each channel that has had *)
(* one configuration all along and wants the message, and to no such       *)
(* channel that does not, while the handler changed others under its feet. *)
(***************************************************************************)
PostedOnce ==
  [][FinishNotify =>
       \A ch \in Channels :
         LET config == sending.steady[ch] IN
         config # None =>
           sending.posted[ch] =
             IF /\ ReasonSeverity(sending.notice.reason) >= LevelInt(config.level)
                /\ config.namespace \in {None, sending.notice.namespace}
                /\ config.labels \subseteq sending.notice.labels
             THEN 1 ELSE 0]_vars

(***************************************************************************)
(* Notify comes to an end, and the worker goes on reconciling, unless the  *)
(* endpoint it is posting to hangs: nothing else holds it up.              *)
(***************************************************************************)
Hanging == sending.pc = "post" /\ sending.url \in hung
NotifyEnds == sending.pc # "idle" ~> sending.pc = "idle" \/ Hanging

(***************************************************************************)
(* The map catches up with the config map at the API server, through       *)
(* crashes and missed deletions, as users stop editing.                    *)
(***************************************************************************)
CatchesUp == <>[](seen = configMap /\ handler.pc = "idle")
=============================================================================
