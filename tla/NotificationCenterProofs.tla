----------------------- MODULE NotificationCenterProofs -----------------------
(***************************************************************************)
(* Proofs about NotificationCenter, for any channels, texts and notices    *)
(* and any budget of edits and crashes.                                    *)
(***************************************************************************)
EXTENDS NotificationCenter, TLAPS

USE CenterAssumption, NoneAssumption

(***************************************************************************)
(* A valid text with its defaults filled in is a configuration, and goes   *)
(* to the address of the text (validateAndSetDefault).                     *)
(***************************************************************************)
LEMMA ParsedIsConfig ==
  ASSUME NEW text \in Texts, Valid(text)
  PROVE  Parsed(text) \in Configs /\ Parsed(text) # None
  BY DEF Configs

LEMMA ConfigUrl ==
  ASSUME NEW config \in Configs
  PROVE  config.url \in Urls
<1>1. PICK text \in Texts : config = Parsed(text)
  BY DEF Configs
<1>2. config.url = text.url
  BY <1>1 DEF Parsed
<1>3. QED BY <1>2 DEF Urls

SendingType ==
  [pc : {"idle", "range", "post"}, notice : Notices \cup {None}, url : Urls \cup {None},
   owed : SUBSET Channels, extra : SUBSET Channels, posted : [Channels -> Nat],
   steady : [Channels -> Configs \cup {None}]]

HandlerType ==
  [pc : {"idle", "update", "remove"}, data : ConfigMaps, todo : SUBSET Channels]

(***************************************************************************)
(* What a handler under way has done: it works on the version seen last;   *)
(* names it has been through are as the text says, names that are gone and *)
(* that it has been through are out of the map.                            *)
(***************************************************************************)
InEffect(ch, text) == Valid(text) => Notifiers[ch] = Parsed(text)
UpdateInv ==
  handler.pc = "update" =>
    /\ handler.todo \subseteq Named(handler.data)
    /\ \A ch \in Named(handler.data) \ handler.todo : InEffect(ch, handler.data[ch])
RemoveInv ==
  handler.pc = "remove" =>
    /\ \A ch \in Named(handler.data) : InEffect(ch, handler.data[ch])
    /\ \A ch \in Channels \ handler.todo : handler.data[ch] = None => Notifiers[ch] = None
HandlerInv ==
  /\ handler.pc # "idle" => handler.data = DataOf(seen)
  /\ UpdateInv
  /\ RemoveInv

(***************************************************************************)
(* What a Notify under way has done: a channel with one configuration all  *)
(* along is still to come, or was posted to if and only if it wants this.  *)
(***************************************************************************)
Accounted(ch) ==
  LET config == sending.steady[ch]
      done == ch \notin sending.owed /\ Wants(config, sending.notice)
  IN /\ Notifiers[ch] = config
     /\ ch \notin sending.extra
     /\ sending.posted[ch] = IF done THEN 1 ELSE 0
NotifyInv ==
  /\ sending.pc = "idle" => sending.owed \cup sending.extra = {}
  /\ sending.pc # "idle" =>
       \A ch \in Channels : sending.steady[ch] # None => Accounted(ch)

IInv == TypeOK /\ FollowsConfigMap /\ HandlerInv /\ NotifyInv

(***************************************************************************)
(* A state of a process that has just started satisfies the invariant.     *)
(***************************************************************************)
Fresh ==
  /\ configMap \in ConfigMaps \cup {None} /\ hung \subseteq Urls
  /\ Notifiers = NoChannels /\ seen = None /\ handler = AtRest /\ sending = Resting

LEMMA FreshProcess == Fresh => IInv
<1> SUFFICES ASSUME Fresh PROVE IInv
  OBVIOUS
<1> USE DEF Fresh
<1>1. NoChannels \in ConfigMaps /\ NoChannels \in [Channels -> Configs \cup {None}]
  BY DEF NoChannels, ConfigMaps
<1>2. AtRest \in HandlerType
  BY <1>1 DEF AtRest, HandlerType
<1>3. Resting \in SendingType
  BY <1>1 DEF Resting, SendingType
<1>4. Resting.owed \cup Resting.extra = {}
  BY DEF Resting
<1>5. TypeOK
  BY <1>1, <1>2, <1>3, <1>4 DEF TypeOK, SendingType, HandlerType
<1>6. FollowsConfigMap
  BY DEF FollowsConfigMap, DataOf, NoChannels
<1>7. HandlerInv /\ NotifyInv
  BY DEF HandlerInv, UpdateInv, RemoveInv, NotifyInv, AtRest, Resting
<1>8. QED BY <1>5, <1>6, <1>7 DEF IInv

(***************************************************************************)
(* What a write of the handler does to a range keeps the type of the       *)
(* range, and what is still to come stays in the map.                      *)
(***************************************************************************)
LEMMA OverwrittenType ==
  ASSUME TypeOK, NEW ch \in Channels, NEW config \in Configs, config # None,
         Notifiers' = [Notifiers EXCEPT ![ch] = config], Overwritten(ch)
  PROVE  /\ sending' \in SendingType
         /\ sending'.owed \cup sending'.extra \subseteq Present'
<1>1. sending \in SendingType /\ sending.owed \cup sending.extra \subseteq Present
  BY DEF TypeOK, SendingType
<1>2. Present' = Present \cup {ch}
  BY DEF Present, TypeOK
<1>3. CASE sending.pc = "idle"
  BY <1>1, <1>2, <1>3 DEF Overwritten
<1>4. CASE sending.pc # "idle" /\ Notifiers[ch] = None
  <2>1. sending' = [sending EXCEPT !.steady[ch] = None, !.extra = @ \cup {ch}]
    BY <1>4 DEF Overwritten
  <2>2. QED BY <1>1, <1>2, <2>1 DEF SendingType
<1>5. CASE sending.pc # "idle" /\ Notifiers[ch] # None
  <2>1. sending' = [sending EXCEPT !.steady[ch] = None, !.extra = @]
    BY <1>5 DEF Overwritten
  <2>2. QED BY <1>1, <1>2, <2>1 DEF SendingType
<1>6. QED BY <1>3, <1>4, <1>5

LEMMA DeletedType ==
  ASSUME TypeOK, NotifyInv, NEW ch \in Channels,
         Notifiers' = [Notifiers EXCEPT ![ch] = None], Deleted(ch)
  PROVE  /\ sending' \in SendingType
         /\ sending'.owed \cup sending'.extra \subseteq Present'
<1>1. sending \in SendingType /\ sending.owed \cup sending.extra \subseteq Present
  BY DEF TypeOK, SendingType
<1>2. Present' = Present \ {ch}
  BY DEF Present, TypeOK
<1>3. CASE sending.pc = "idle"
  <2>1. sending.owed \cup sending.extra = {}
    BY <1>3 DEF NotifyInv
  <2>2. QED BY <1>1, <1>2, <1>3, <2>1 DEF Deleted
<1>4. CASE sending.pc # "idle"
  BY <1>1, <1>2, <1>4 DEF Deleted, SendingType
<1>5. QED BY <1>3, <1>4

(***************************************************************************)
(* ... and the account of the other channels.                              *)
(***************************************************************************)
LEMMA OverwrittenNotify ==
  ASSUME TypeOK, NotifyInv, NEW ch \in Channels, NEW config,
         Notifiers' = [Notifiers EXCEPT ![ch] = config], Overwritten(ch)
  PROVE  NotifyInv'
<1>1. sending \in SendingType
  BY DEF TypeOK, SendingType
<1>2. CASE sending.pc = "idle"
  BY <1>2 DEF Overwritten, NotifyInv
<1>3. CASE sending.pc # "idle"
  <2>1. /\ sending'.pc = sending.pc /\ sending'.notice = sending.notice
        /\ sending'.owed = sending.owed /\ sending'.posted = sending.posted
        /\ sending'.steady = [sending.steady EXCEPT ![ch] = None]
        /\ sending'.extra \subseteq sending.extra \cup {ch}
    BY <1>1, <1>3 DEF Overwritten, SendingType
  <2>2. \A o \in Channels \ {ch} :
          sending'.steady[o] = sending.steady[o] /\ Notifiers'[o] = Notifiers[o]
    BY <1>1, <2>1 DEF SendingType, TypeOK
  <2>3. sending'.steady[ch] = None
    BY <1>1, <2>1 DEF SendingType
  <2>4. ASSUME NEW o \in Channels, sending'.steady[o] # None
        PROVE  Accounted(o)'
    <3>1. o # ch
      BY <2>3, <2>4
    <3>2. sending.steady[o] # None
      BY <2>2, <2>4, <3>1
    <3>3. Accounted(o)
      BY <1>3, <3>2 DEF NotifyInv
    <3>4. QED BY <2>1, <2>2, <3>1, <3>3 DEF Accounted
  <2>5. QED BY <1>3, <2>1, <2>4 DEF NotifyInv
<1>4. QED BY <1>2, <1>3

LEMMA DeletedNotify ==
  ASSUME TypeOK, NotifyInv, NEW ch \in Channels,
         Notifiers' = [Notifiers EXCEPT ![ch] = None], Deleted(ch)
  PROVE  NotifyInv'
<1>1. sending \in SendingType
  BY DEF TypeOK, SendingType
<1>2. CASE sending.pc = "idle"
  BY <1>2 DEF Deleted, NotifyInv
<1>3. CASE sending.pc # "idle"
  <2>1. /\ sending'.pc = sending.pc /\ sending'.notice = sending.notice
        /\ sending'.owed = sending.owed \ {ch} /\ sending'.posted = sending.posted
        /\ sending'.steady = [sending.steady EXCEPT ![ch] = None]
        /\ sending'.extra = sending.extra \ {ch}
    BY <1>1, <1>3 DEF Deleted, SendingType
  <2>2. \A o \in Channels \ {ch} :
          sending'.steady[o] = sending.steady[o] /\ Notifiers'[o] = Notifiers[o]
    BY <1>1, <2>1 DEF SendingType, TypeOK
  <2>3. sending'.steady[ch] = None
    BY <1>1, <2>1 DEF SendingType
  <2>4. ASSUME NEW o \in Channels, sending'.steady[o] # None
        PROVE  Accounted(o)'
    <3>1. o # ch
      BY <2>3, <2>4
    <3>2. sending.steady[o] # None
      BY <2>2, <2>4, <3>1
    <3>3. Accounted(o)
      BY <1>3, <3>2 DEF NotifyInv
    <3>4. QED BY <2>1, <2>2, <3>1, <3>3 DEF Accounted
  <2>5. QED BY <1>3, <2>1, <2>4 DEF NotifyInv
<1>4. QED BY <1>2, <1>3

(***************************************************************************)
(* Notify leaves the map and the handler alone.                            *)
(***************************************************************************)
LEMMA NotifySteps ==
  ASSUME IInv, Notify \/ \E notice \in Notices : StartNotify(notice)
  PROVE  IInv'
<1>1. TypeOK /\ NotifyInv /\ sending \in SendingType
  BY DEF IInv, TypeOK, SendingType
<1>2. UNCHANGED <<configMap, seen, Notifiers, handler, hung>>
  BY DEF Notify, StartNotify, Reach, PostReturns, FinishNotify
<1>3. FollowsConfigMap' /\ HandlerInv'
  BY <1>2 DEF IInv, FollowsConfigMap, HandlerInv, UpdateInv, RemoveInv, InEffect, Named, DataOf,
               NoChannels
<1>4. Present' = Present
  BY <1>2 DEF Present
<1>5. sending' \in SendingType /\ sending'.owed \cup sending'.extra \subseteq Present /\ NotifyInv'
  <2>1. CASE \E notice \in Notices : StartNotify(notice)
    <3>1. PICK notice \in Notices : StartNotify(notice)
      BY <2>1
    <3>2. sending' = [pc |-> "range", notice |-> notice, url |-> None, owed |-> Present,
                      extra |-> {}, posted |-> [ch \in Channels |-> 0], steady |-> Notifiers]
      BY <3>1 DEF StartNotify, Resting
    <3>3. QED BY <1>1, <1>2, <3>2 DEF TypeOK, SendingType, NotifyInv, Accounted, Present
  <2>2. CASE \E ch \in Channels : Reach(ch)
    <3>1. PICK ch \in Channels : Reach(ch)
      BY <2>2
    <3>2. ch \in Present /\ Notifiers[ch] \in Configs /\ Notifiers[ch].url \in Urls
      BY <1>1, <3>1, ConfigUrl DEF Reach, Present, TypeOK
    <3>3. \A o \in Channels : sending.steady[o] # None => Accounted(o)
      BY <1>1, <3>1 DEF Reach, NotifyInv
    <3>4. CASE Wants(Notifiers[ch], sending.notice)
      <4> DEFINE next == [sending EXCEPT !.owed = @ \ {ch}, !.extra = @ \ {ch}]
                 posted == [sending.posted EXCEPT ![ch] = sending.posted[ch] + 1]
      <4>1. next \in SendingType /\ sending.posted \in [Channels -> Nat]
        BY <1>1 DEF SendingType
      <4>2. posted \in [Channels -> Nat]
        BY <4>1
      <4>3. sending' = [next EXCEPT !.pc = "post", !.url = Notifiers[ch].url, !.posted = posted]
        BY <1>1, <3>1, <3>4 DEF Reach, SendingType
      <4>4. /\ sending'.pc = "post" /\ sending'.notice = sending.notice
            /\ sending'.owed = sending.owed \ {ch} /\ sending'.extra = sending.extra \ {ch}
            /\ sending'.posted = posted /\ sending'.steady = sending.steady
        BY <1>1, <4>1, <4>3 DEF SendingType
      <4>5. sending' \in SendingType
        BY <3>2, <4>1, <4>2, <4>3 DEF SendingType
      <4>6. ASSUME NEW o \in Channels, sending'.steady[o] # None
            PROVE  Accounted(o)'
        <5>1. /\ Accounted(o) /\ sending'.steady[o] = sending.steady[o]
              /\ sending'.notice = sending.notice
          BY <3>3, <4>4, <4>6
        <5>2. CASE o = ch
          BY <1>1, <1>2, <3>1, <3>4, <4>4, <5>1, <5>2 DEF Accounted, Reach, SendingType
        <5>3. CASE o # ch
          BY <1>1, <1>2, <4>4, <5>1, <5>3 DEF Accounted, SendingType
        <5>4. QED BY <5>2, <5>3
      <4>7. QED BY <1>1, <4>4, <4>5, <4>6 DEF NotifyInv, TypeOK
    <3>5. CASE ~Wants(Notifiers[ch], sending.notice)
      <4>1. sending' = [sending EXCEPT !.owed = @ \ {ch}, !.extra = @ \ {ch}]
        BY <3>1, <3>5 DEF Reach
      <4>2. sending' \in SendingType
        BY <1>1, <4>1 DEF SendingType
      <4>3. ASSUME NEW o \in Channels, sending'.steady[o] # None
            PROVE  Accounted(o)'
        <5>1. /\ Accounted(o) /\ sending'.steady[o] = sending.steady[o]
              /\ sending'.notice = sending.notice /\ sending'.posted = sending.posted
          BY <1>1, <3>3, <4>1, <4>3 DEF SendingType
        <5>2. CASE o = ch
          BY <1>1, <1>2, <3>1, <3>5, <4>1, <5>1, <5>2 DEF Accounted, Reach, SendingType
        <5>3. CASE o # ch
          BY <1>1, <1>2, <4>1, <5>1, <5>3 DEF Accounted, SendingType
        <5>4. QED BY <5>2, <5>3
      <4>4. sending.pc = "range" /\ sending'.pc = "range"
        BY <1>1, <3>1, <4>1 DEF Reach, SendingType
      <4>5. QED BY <1>1, <4>1, <4>2, <4>3, <4>4 DEF NotifyInv, TypeOK, SendingType
    <3>6. QED BY <3>4, <3>5
  <2>3. CASE PostReturns
    <3>1. /\ sending.pc = "post"
          /\ sending' = [sending EXCEPT !.pc = "range", !.url = None]
      BY <2>3 DEF PostReturns
    <3>2. sending' \in SendingType
      BY <1>1, <3>1 DEF SendingType
    <3>3. /\ sending'.pc = "range" /\ sending'.notice = sending.notice
          /\ sending'.owed = sending.owed /\ sending'.extra = sending.extra
          /\ sending'.posted = sending.posted /\ sending'.steady = sending.steady
      BY <1>1, <3>1 DEF SendingType
    <3>4. NotifyInv'
      BY <1>1, <1>2, <3>1, <3>3 DEF NotifyInv, Accounted
    <3>5. QED BY <1>1, <3>2, <3>3, <3>4 DEF TypeOK
  <2>4. CASE FinishNotify
    <3>1. /\ sending' = Resting /\ Resting \in SendingType
          /\ Resting.pc = "idle" /\ Resting.owed \cup Resting.extra = {}
      BY <2>4 DEF FinishNotify, Resting, SendingType, NoChannels
    <3>2. QED BY <3>1 DEF NotifyInv
  <2>5. QED BY <2>1, <2>2, <2>3, <2>4 DEF Notify
<1>6. TypeOK'
  BY <1>1, <1>2, <1>4, <1>5 DEF TypeOK, SendingType
<1>7. QED BY <1>3, <1>5, <1>6 DEF IInv

(***************************************************************************)
(* The handler does to the map what the config map says, name by name, and *)
(* a range under way keeps its account.                                    *)
(***************************************************************************)
LEMMA HandlerSteps ==
  ASSUME IInv, Handler
  PROVE  IInv'
<1>1. /\ TypeOK /\ NotifyInv /\ HandlerInv /\ FollowsConfigMap
      /\ handler \in HandlerType /\ sending \in SendingType
  BY DEF IInv, TypeOK, SendingType, HandlerType
<1>2. UNCHANGED <<configMap, hung>>
  BY DEF Handler, Deliver, UpdateChannel, BeginRemoval, RemoveChannel, EndHandler
<1>3. ASSUME UNCHANGED <<Notifiers, sending>>
      PROVE  NotifyInv'
  BY <1>1, <1>3 DEF NotifyInv, Accounted
<1>4. CASE Deliver
  <2>1. /\ handler.pc = "idle" /\ seen' = configMap
        /\ handler' = [pc |-> IF configMap = None THEN "remove" ELSE "update",
                       data |-> DataOf(configMap),
                       todo |-> IF configMap = None THEN Present ELSE Named(DataOf(configMap))]
        /\ UNCHANGED <<Notifiers, sending>>
    BY <1>4 DEF Deliver
  <2>2. DataOf(configMap) \in ConfigMaps
    BY <1>1 DEF DataOf, NoChannels, ConfigMaps, TypeOK
  <2>3. TypeOK'
    BY <1>1, <1>2, <2>1, <2>2 DEF TypeOK, HandlerType, Present, Named
  <2>4. HandlerInv'
    BY <1>1, <2>1, <2>2 DEF HandlerInv, UpdateInv, RemoveInv, Named, Present, DataOf, NoChannels
  <2>5. FollowsConfigMap'
    BY <2>1 DEF FollowsConfigMap
  <2>6. QED BY <1>3, <2>1, <2>3, <2>4, <2>5 DEF IInv
<1>5. CASE BeginRemoval
  <2>1. /\ handler.pc = "update" /\ handler.todo = {} /\ seen' = seen
        /\ handler' = [handler EXCEPT !.pc = "remove", !.todo = Present]
        /\ UNCHANGED <<Notifiers, sending>>
    BY <1>5 DEF BeginRemoval
  <2>2. TypeOK'
    BY <1>1, <1>2, <2>1 DEF TypeOK, HandlerType, Present
  <2>3. HandlerInv'
    BY <1>1, <2>1 DEF HandlerInv, UpdateInv, RemoveInv, InEffect, Named, Present, HandlerType,
                      DataOf, NoChannels
  <2>4. FollowsConfigMap'
    BY <1>1, <2>1 DEF FollowsConfigMap, HandlerType
  <2>5. QED BY <1>3, <2>1, <2>2, <2>3, <2>4 DEF IInv
<1>6. CASE EndHandler
  <2>1. /\ handler.pc = "remove" /\ handler.todo = {} /\ seen' = seen /\ handler' = AtRest
        /\ UNCHANGED <<Notifiers, sending>>
    BY <1>6 DEF EndHandler
  <2>2. AtRest \in HandlerType /\ AtRest.pc = "idle"
    BY DEF AtRest, HandlerType, NoChannels, ConfigMaps
  <2>3. TypeOK'
    BY <1>1, <1>2, <2>1, <2>2 DEF TypeOK, HandlerType, Present
  <2>4. HandlerInv'
    BY <2>1, <2>2 DEF HandlerInv, UpdateInv, RemoveInv
  <2>5. /\ handler.data = DataOf(seen)
        /\ \A ch \in Named(handler.data) : InEffect(ch, handler.data[ch])
        /\ \A ch \in Channels : handler.data[ch] = None => Notifiers[ch] = None
    BY <1>1, <2>1 DEF HandlerInv, RemoveInv
  <2>6. FollowsConfigMap'
    BY <2>1, <2>5 DEF FollowsConfigMap, InEffect, Named, DataOf, NoChannels
  <2>7. QED BY <1>3, <2>1, <2>3, <2>4, <2>6 DEF IInv
<1>7. CASE \E ch \in Channels : UpdateChannel(ch)
  <2>1. PICK ch \in Channels : UpdateChannel(ch)
    BY <1>7
  <2>2. /\ handler.pc = "update" /\ ch \in handler.todo /\ seen' = seen
        /\ handler' = [handler EXCEPT !.todo = @ \ {ch}]
    BY <2>1 DEF UpdateChannel
  <2>3. handler' \in HandlerType /\ handler'.pc = "update" /\ handler'.data = handler.data
        /\ handler'.todo = handler.todo \ {ch}
    BY <1>1, <2>2 DEF HandlerType
  <2>4. /\ handler.data[ch] \in Texts /\ handler.todo \subseteq Named(handler.data)
        /\ \A o \in Named(handler.data) \ handler.todo : InEffect(o, handler.data[o])
    BY <1>1, <2>2 DEF HandlerInv, UpdateInv, Named, HandlerType, ConfigMaps
  <2>5. FollowsConfigMap'
    BY <2>3 DEF FollowsConfigMap
  <2>6. CASE Valid(handler.data[ch])
    <3>1. Notifiers' = [Notifiers EXCEPT ![ch] = Parsed(handler.data[ch])] /\ Overwritten(ch)
      BY <2>1, <2>6 DEF UpdateChannel
    <3>2. Parsed(handler.data[ch]) \in Configs /\ Parsed(handler.data[ch]) # None
      BY <2>4, <2>6, ParsedIsConfig
    <3>3. TypeOK'
      BY <1>1, <1>2, <2>2, <2>3, <3>1, <3>2, OverwrittenType DEF TypeOK, HandlerType, SendingType
    <3>4. NotifyInv'
      BY <1>1, <3>1, OverwrittenNotify
    <3>5. \A o \in Channels :
            Notifiers'[o] = IF o = ch THEN Parsed(handler.data[ch]) ELSE Notifiers[o]
      BY <1>1, <3>1 DEF TypeOK
    <3>6. HandlerInv'
      BY <1>1, <2>2, <2>3, <2>4, <3>5 DEF HandlerInv, UpdateInv, RemoveInv, InEffect, Named, DataOf,
                                        NoChannels
    <3>7. QED BY <2>5, <3>3, <3>4, <3>6 DEF IInv
  <2>7. CASE ~Valid(handler.data[ch])
    <3>1. UNCHANGED <<Notifiers, sending>>
      BY <2>1, <2>7 DEF UpdateChannel
    <3>2. TypeOK'
      BY <1>1, <1>2, <2>2, <2>3, <3>1 DEF TypeOK, HandlerType, Present
    <3>3. HandlerInv'
      BY <1>1, <2>2, <2>3, <2>4, <2>7, <3>1 DEF HandlerInv, UpdateInv, RemoveInv, InEffect, Named,
                                             DataOf, NoChannels
    <3>4. QED BY <1>3, <2>5, <3>1, <3>2, <3>3 DEF IInv
  <2>8. QED BY <2>6, <2>7
<1>8. CASE \E ch \in Channels : RemoveChannel(ch)
  <2>1. PICK ch \in Channels : RemoveChannel(ch)
    BY <1>8
  <2>2. /\ handler.pc = "remove" /\ ch \in handler.todo /\ seen' = seen
        /\ handler' = [handler EXCEPT !.todo = @ \ {ch}]
    BY <2>1 DEF RemoveChannel
  <2>3. handler' \in HandlerType /\ handler'.pc = "remove" /\ handler'.data = handler.data
        /\ handler'.todo = handler.todo \ {ch}
    BY <1>1, <2>2 DEF HandlerType
  <2>4. FollowsConfigMap'
    BY <2>3 DEF FollowsConfigMap
  <2>5. CASE handler.data[ch] = None
    <3>1. Notifiers' = [Notifiers EXCEPT ![ch] = None] /\ Deleted(ch)
      BY <2>1, <2>5 DEF RemoveChannel
    <3>2. TypeOK'
      BY <1>1, <1>2, <2>2, <2>3, <3>1, DeletedType DEF TypeOK, HandlerType, SendingType
    <3>3. NotifyInv'
      BY <1>1, <3>1, DeletedNotify
    <3>4. \A o \in Channels : Notifiers'[o] = IF o = ch THEN None ELSE Notifiers[o]
      BY <1>1, <3>1 DEF TypeOK
    <3>5. HandlerInv'
      BY <1>1, <2>2, <2>3, <2>5, <3>4 DEF HandlerInv, UpdateInv, RemoveInv, InEffect, Named, DataOf,
                                        NoChannels
    <3>6. QED BY <2>4, <3>2, <3>3, <3>5 DEF IInv
  <2>6. CASE handler.data[ch] # None
    <3>1. UNCHANGED <<Notifiers, sending>>
      BY <2>1, <2>6 DEF RemoveChannel
    <3>2. TypeOK'
      BY <1>1, <1>2, <2>2, <2>3, <3>1 DEF TypeOK, HandlerType, Present
    <3>3. HandlerInv'
      BY <1>1, <2>2, <2>3, <2>6, <3>1 DEF HandlerInv, UpdateInv, RemoveInv, InEffect, Named, DataOf,
                                        NoChannels
    <3>4. QED BY <1>3, <2>4, <3>1, <3>2, <3>3 DEF IInv
  <2>7. QED BY <2>5, <2>6
<1>9. QED BY <1>4, <1>5, <1>6, <1>7, <1>8 DEF Handler

(***************************************************************************)
(* The invariant holds at first and every step preserves it.               *)
(***************************************************************************)
LEMMA InitInvariant == Init => IInv
<1>1. Init => Fresh
  BY DEF Init, Fresh
<1>2. QED BY <1>1, FreshProcess

LEMMA NextInvariant == IInv /\ [Next]_vars => IInv'
<1> SUFFICES ASSUME IInv, [Next]_vars PROVE IInv'
  OBVIOUS
<1>1. CASE Notify \/ \E notice \in Notices : StartNotify(notice)
  BY <1>1, NotifySteps
<1>2. CASE Handler
  BY <1>2, HandlerSteps
<1>3. CASE MapRace \/ DeliverTombstone
  <2>1. Fresh'
    BY <1>3 DEF MapRace, DeliverTombstone, Restart, Fresh, IInv, TypeOK, NoChannels, AtRest, Resting
  <2>2. QED BY <2>1, FreshProcess, PTL
<1>4. CASE \E cm \in ConfigMaps \cup {None} : EditConfigMap(cm)
  BY <1>4 DEF EditConfigMap, IInv, TypeOK, Present, FollowsConfigMap, HandlerInv, UpdateInv,
              RemoveInv, InEffect, NotifyInv, Accounted
<1>5. CASE \E url \in Urls : Hang(url) \/ Recover(url)
  BY <1>5 DEF Hang, Recover, IInv, TypeOK, Present, FollowsConfigMap, HandlerInv, UpdateInv,
              RemoveInv, InEffect, NotifyInv, Accounted
<1>6. CASE UNCHANGED vars
  BY <1>6 DEF vars, IInv, TypeOK, Present, FollowsConfigMap, HandlerInv, UpdateInv,
              RemoveInv, InEffect, NotifyInv, Accounted
<1>7. QED BY <1>1, <1>2, <1>3, <1>4, <1>5, <1>6 DEF Next

LEMMA Invariance == Spec => []IInv
  BY InitInvariant, NextInvariant, PTL DEF Spec

(***************************************************************************)
(* Type correctness.                                                       *)
(***************************************************************************)
THEOREM TypeCorrect == Spec => []TypeOK
  BY Invariance, PTL DEF IInv

(***************************************************************************)
(* Whenever the handler rests the map is what the config map it saw last   *)
(* says, through crashes in the middle of the handler.                     *)
(***************************************************************************)
THEOREM MapFollows == Spec => []FollowsConfigMap
  BY Invariance, PTL DEF IInv

(***************************************************************************)
(* A Notify that ends has posted exactly once to each channel that had one *)
(* configuration all along and wants the message, to no other such one.    *)
(***************************************************************************)
THEOREM NotifiedOnce == Spec => PostedOnce
<1>1. ASSUME IInv, FinishNotify, NEW ch \in Channels, sending.steady[ch] # None
      PROVE  sending.posted[ch] = IF Wants(sending.steady[ch], sending.notice) THEN 1 ELSE 0
  BY <1>1 DEF IInv, NotifyInv, Accounted, FinishNotify
<1>2. IInv => (FinishNotify =>
        \A ch \in Channels :
          LET config == sending.steady[ch] IN
          config # None =>
            sending.posted[ch] =
              IF /\ ReasonSeverity(sending.notice.reason) >= LevelInt(config.level)
                 /\ config.namespace \in {None, sending.notice.namespace}
                 /\ config.labels \subseteq sending.notice.labels
              THEN 1 ELSE 0)
  BY <1>1 DEF Wants
<1>3. QED BY <1>2, Invariance, PTL DEF PostedOnce
=============================================================================
