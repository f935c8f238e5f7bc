------------------------- MODULE MCNotificationCenter -------------------------
(***************************************************************************)
(* Two channels, and texts and notices that differ in what the code tests: *)
(* the default level and an unknown one, namespaces, labels.               *)
(***************************************************************************)
EXTENDS NotificationCenter

CONSTANTS c1, c2, u1, u2, here, there, tag

MCChannels == {c1, c2}

Text(level, namespace, labels, url) ==
  [notifier |-> "slack", level |-> level, namespace |-> namespace, labels |-> labels,
   url |-> url]
MCTexts ==
  {Text("error", None, {}, u1), Text("", here, {tag}, u2), Text("loud", None, {}, u2)}

Notice(reason, namespace, labels) ==
  [reason |-> reason, namespace |-> namespace, labels |-> labels]
MCNotices ==
  {Notice("ExperimentCompleted", here, {tag}), Notice("TargetsError", there, {}),
   Notice("TargetsFound", here, {tag})}
=============================================================================
