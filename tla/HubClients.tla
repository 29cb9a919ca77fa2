----------------------------- MODULE HubClients -----------------------------
(***************************************************************************)
(* The sockets of one instance (internal/hub/hub.go): the follower of the  *)
(* channel announces statuses and frames, each socket has a goroutine, a   *)
(* bounded queue and the permissions of its last check, and the hub drains *)
(* them when the instance stops.  A step is what the code does under one   *)
(* taking of the mutex.                                                    *)
(*                                                                         *)
(* Two subjects stand for the four: billing, which asks for a permission,  *)
(* and notifications, which asks for none, follows the status of billing   *)
(* and is filtered frame by frame.                                         *)
(***************************************************************************)
EXTENDS Naturals, Sequences

CONSTANTS
    Client,    \* sockets of this instance, taken again once closed
    QueueSize, \* queueSize
    None


Topic == {"billing", "notifications"}
HubStatus == {"live", "stale"}
Word == HubStatus \cup {"forbidden"}

\* None is a word of its own: no socket, no status, no publication.
ASSUME HubClientsAssumption ==
    /\ QueueSize \in Nat \ {0}
    /\ None \notin Client /\ None \notin HubStatus /\ None \notin [topic : Topic, kind : HubStatus]

VARIABLES
    statuses, \* statuses[t]: the status of the hub
    subs,     \* subs[t]: the sockets subscribed to t
    pub,      \* the follower: the status it is about to publish, or None
    mirror,   \* the follower: the status it is about to report on notifications, or None
    at,       \* at[c]: where the goroutine of socket c is
    knows,    \* knows[c]: whether Serve's own `granted` has the permission
    granted,  \* granted[c]: whether the shared c.granted has it
    queue,    \* queue[c]: what waits to be written
    lagging,  \* lagging[c]: whether the channel is closed
    heard,    \* history: the last word of each subject the socket received
    run       \* where Run is

follower == <<pub, mirror>>
sockets == <<at, knows, granted>>
wire == <<queue, lagging, heard>>
hubVars == <<statuses, subs, follower, sockets, wire, run>>

Frame == [topic : Topic, kind : Word \cup {"data"}] \cup {[topic |-> None, kind |-> "error"]}

HubTypeOK ==
    /\ statuses \in [Topic -> HubStatus] /\ subs \in [Topic -> SUBSET Client]
    /\ pub \in [topic : Topic, kind : HubStatus] \cup {None} /\ mirror \in HubStatus \cup {None}
    /\ at \in [Client -> {"out", "entered", "serving", "dropping", "forbidding", "closing"}]
    /\ knows \in [Client -> BOOLEAN] /\ granted \in [Client -> BOOLEAN]
    /\ queue \in [Client -> Seq(Frame)] /\ \A c \in Client : Len(queue[c]) <= QueueSize
    /\ lagging \in [Client -> BOOLEAN]
    /\ heard \in [Client -> [Topic -> Word \cup {"none"}]]
    /\ run \in {"up", "stopping", "drained"}

HubInit ==
    /\ statuses = [t \in Topic |-> "stale"] /\ subs = [t \in Topic |-> {}]
    /\ pub = None /\ mirror = None
    /\ at = [c \in Client |-> "out"]
    /\ knows = [c \in Client |-> FALSE] /\ granted = [c \in Client |-> FALSE]
    /\ queue = [c \in Client |-> <<>>] /\ lagging = [c \in Client |-> FALSE]
    /\ heard = [c \in Client |-> [t \in Topic |-> "none"]]
    /\ run = "up"

----------------------------------------------------------------------------
(* The queues. *)

\* Mutant of Overflows: a full queue loses the frame and says nothing.
LosesQuietly(c) == FALSE

Overflows(c) == Len(queue[c]) = QueueSize

\* Mutant of Room: a queue one frame longer.
RoomForOneMore(c) == Len(queue[c]) <= QueueSize

Room(c) == Len(queue[c]) < QueueSize

Offer(C, f) ==
    /\ queue' = [c \in Client |-> IF c \in C /\ Room(c) THEN Append(queue[c], f) ELSE queue[c]]
    /\ lagging' = [c \in Client |-> lagging[c] \/ (c \in C /\ Overflows(c))]

Said(t, kind) == [topic |-> t, kind |-> kind]

\* Serve writes the oldest frame; a client that reads no more ends in an error.
Write(c) ==
    /\ at[c] = "serving" /\ queue[c] # <<>>
    /\ queue' = [queue EXCEPT ![c] = Tail(@)]
    /\ LET f == Head(queue[c]) IN
       heard' = IF f.kind \in Word THEN [heard EXCEPT ![c][f.topic] = f.kind] ELSE heard
    /\ UNCHANGED <<statuses, subs, follower, sockets, lagging, run>>

----------------------------------------------------------------------------
(* The follower: receive and markStale. *)

FollowerIdle == pub = None /\ mirror = None

\* applyStatus: `again` stands for another `since`, which only a stale status has.
Apply(t, s, again) ==
    /\ statuses' = [statuses EXCEPT ![t] = s]
    /\ pub' = IF statuses[t] # s \/ again THEN Said(t, s) ELSE None

SetStatus(s, again) ==
    /\ FollowerIdle /\ (again => s = "stale")
    /\ Apply("billing", s, again)
    /\ mirror' = s
    /\ UNCHANGED <<subs, sockets, wire, run>>

Publish ==
    /\ pub # None
    /\ Offer(subs[pub.topic], pub)
    /\ pub' = None
    /\ UNCHANGED <<statuses, subs, mirror, sockets, heard, run>>

Mirror(again) ==
    /\ pub = None /\ mirror # None /\ (again => mirror = "stale")
    /\ Apply("notifications", mirror, again)
    /\ mirror' = None
    /\ UNCHANGED <<subs, sockets, wire, run>>

\* publish, and publishNotification, which reads c.granted.
Audience(t) == IF t = "billing" THEN subs[t] ELSE {c \in subs[t] : granted[c]}

PublishData(t) ==
    /\ FollowerIdle
    /\ Offer(Audience(t), Said(t, "data"))
    /\ UNCHANGED <<statuses, subs, follower, sockets, heard, run>>

----------------------------------------------------------------------------
(* Serve. *)

Go(c, place) == at' = [at EXCEPT ![c] = place]

\* Mutant of Admits: the door is not looked at.
DoorOpen == TRUE

Admits == run = "up"

\* enter: once the hub drains, the socket is refused and not counted.
Enter(c) ==
    /\ at[c] = "out" /\ Admits
    /\ Go(c, "entered")
    /\ UNCHANGED <<statuses, subs, follower, knows, granted, wire, run>>

\* The first check, then setGranted.
Accept(c, has) ==
    /\ at[c] = "entered"
    /\ Go(c, "serving")
    /\ knows' = [knows EXCEPT ![c] = has] /\ granted' = [granted EXCEPT ![c] = has]
    /\ UNCHANGED <<statuses, subs, follower, wire, run>>

\* The ways out of Serve: a refused check, the stop, the lag, a read or a write that
\* fails, a session that ended.
Refused(c) == at[c] = "entered" /\ Go(c, "closing")
Stops(c) == at[c] = "serving" /\ run # "up" /\ Go(c, "closing")
\* Mutant of Lags: what is left in the queue goes first.
LagsWhenEmpty(c) == at[c] = "serving" /\ lagging[c] /\ queue[c] = <<>> /\ Go(c, "closing")

Lags(c) == at[c] = "serving" /\ lagging[c] /\ Go(c, "closing")
Fails(c) == at[c] = "serving" /\ Go(c, "closing")

Close(c) ==
    /\ Refused(c) \/ Stops(c) \/ Lags(c) \/ Fails(c)
    /\ UNCHANGED <<statuses, subs, follower, knows, granted, wire, run>>

\* The closing handshake is over: unsubscribeAll, then leave.  The client is dropped
\* with its queue: the next socket has a new one.
Leave(c) ==
    /\ at[c] = "closing"
    /\ Go(c, "out")
    /\ subs' = [t \in Topic |-> subs[t] \ {c}]
    /\ knows' = [knows EXCEPT ![c] = FALSE] /\ granted' = [granted EXCEPT ![c] = FALSE]
    /\ queue' = [queue EXCEPT ![c] = <<>>] /\ lagging' = [lagging EXCEPT ![c] = FALSE]
    /\ heard' = [heard EXCEPT ![c] = [t \in Topic |-> "none"]]
    /\ UNCHANGED <<statuses, follower, run>>

\* A message of the client: one subject; a list is handled as as many messages.
\* A message that is not understood, or a subject that does not exist.
Misread(c) ==
    /\ at[c] = "serving"
    /\ Offer({c}, [topic |-> None, kind |-> "error"])
    /\ UNCHANGED <<statuses, subs, follower, sockets, heard, run>>

Allowed(c, t) == t = "notifications" \/ knows[c]

\* Mutant of Welcome: the status is not sent again to a socket that comes back.
WelcomeOnce(c, t) == IF heard[c][t] = "none" THEN Offer({c}, Said(t, statuses[t])) ELSE UNCHANGED <<queue, lagging>>

Welcome(c, t) == Offer({c}, Said(t, statuses[t]))

Subscribe(c, t) ==
    /\ at[c] = "serving" /\ Allowed(c, t)
    /\ subs' = [subs EXCEPT ![t] = @ \cup {c}]
    /\ IF c \in subs[t] THEN UNCHANGED <<queue, lagging>> ELSE Welcome(c, t)
    /\ UNCHANGED <<statuses, follower, sockets, heard, run>>

Forbid(c, t) ==
    /\ at[c] = "serving" /\ ~Allowed(c, t)
    /\ Offer({c}, Said(t, "forbidden"))
    /\ UNCHANGED <<statuses, subs, follower, sockets, heard, run>>

Unsubscribe(c, t) ==
    /\ at[c] = "serving"
    /\ subs' = [subs EXCEPT ![t] = @ \ {c}]
    /\ UNCHANGED <<statuses, follower, sockets, wire, run>>

\* Mutant of Refreshed: the shared permissions are those of the first check.
FirstGrants(c, has) == granted

Refreshed(c, has) == [granted EXCEPT ![c] = has]

\* The revalidation: access answers, setGranted, then dropForbidden.
Revalidate(c, has) ==
    /\ at[c] = "serving"
    /\ Go(c, "dropping")
    /\ knows' = [knows EXCEPT ![c] = has] /\ granted' = Refreshed(c, has)
    /\ UNCHANGED <<statuses, subs, follower, wire, run>>

Dropped(c) == IF Allowed(c, "billing") THEN subs ELSE [subs EXCEPT !["billing"] = @ \ {c}]

DropForbidden(c) ==
    /\ at[c] = "dropping"
    /\ subs' = Dropped(c)
    /\ Go(c, IF c \in subs["billing"] /\ ~Allowed(c, "billing") THEN "forbidding" ELSE "serving")
    /\ UNCHANGED <<statuses, follower, knows, granted, wire, run>>

TellForbidden(c) ==
    /\ at[c] = "forbidding"
    /\ Go(c, "serving")
    /\ Offer({c}, Said("billing", "forbidden"))
    /\ UNCHANGED <<statuses, subs, follower, knows, granted, heard, run>>

----------------------------------------------------------------------------
(* Run, after the cancellation: draining, the stop, the wait.  The grace changes nothing for the sockets: it ends *)
(* the process that waits for them. *)

Served == {c \in Client : at[c] # "out"}

Drain ==
    /\ \/ run = "up" /\ run' = "stopping"
       \/ run = "stopping" /\ Served = {} /\ run' = "drained"
    /\ UNCHANGED <<statuses, subs, follower, sockets, wire>>

Follow ==
    \/ \E s \in HubStatus, again \in BOOLEAN : SetStatus(s, again)
    \/ Publish \/ \E again \in BOOLEAN : Mirror(again)
    \/ \E t \in Topic : PublishData(t)

Check(c) == DropForbidden(c) \/ TellForbidden(c)
Handle(c) == \E t \in Topic : Subscribe(c, t) \/ Forbid(c, t) \/ Unsubscribe(c, t)

Serve(c) ==
    \/ Enter(c) \/ \E has \in BOOLEAN : Accept(c, has) \/ Revalidate(c, has)
    \/ Close(c) \/ Leave(c)
    \/ Misread(c) \/ Handle(c) \/ Check(c) \/ Write(c)

HubNext == Follow \/ (\E c \in Client : Serve(c)) \/ Drain

\* A goroutine goes on; a check and a closing handshake are bounded; Go's select
\* leaves no ready case aside for ever.
HubFairness ==
    \A c \in Client :
        /\ WF_hubVars(Check(c) \/ Leave(c))
        /\ WF_hubVars(\/ Refused(c) /\ UNCHANGED <<statuses, subs, follower, knows, granted, wire, run>>
                   \/ \E has \in BOOLEAN : Accept(c, has))
        /\ SF_hubVars((Stops(c) \/ Lags(c)) /\ UNCHANGED <<statuses, subs, follower, knows, granted, wire, run>>)

HubSpec == HubInit /\ [][HubNext]_hubVars /\ HubFairness

----------------------------------------------------------------------------
(* Properties. *)

IsWord(frame, t) == frame.topic = t /\ frame.kind \in Word

\* Who last heard `said` of subject t, and then reads the first n of `frames`, has heard
\* `word` last.
LastWord(said, frames, n, t, word) ==
    \/ said = word /\ \A i \in 1 .. n : ~IsWord(frames[i], t)
    \/ \E i \in 1 .. n : /\ IsWord(frames[i], t) /\ frames[i].kind = word
                         /\ \A j \in i + 1 .. n : ~IsWord(frames[j], t)

\* What a subscribed socket has been told of a subject is what the hub knows, unless it
\* is about to be told: no status is lost without the socket being closed (queueSize).
ToldTheTruth ==
    \A t \in Topic : \A c \in subs[t] :
        ~lagging[c] => \/ LastWord(heard[c][t], queue[c], Len(queue[c]), t, statuses[t])
                       \/ pub = Said(t, statuses[t])

\* Each frame of a subject among `frames` comes after a status of that subject.
Announced(said, frames) ==
    \A i \in DOMAIN frames : frames[i].kind = "data"
        => \E status \in HubStatus : LastWord(said[frames[i].topic], frames, i, frames[i].topic, status)

\* A frame of a subject always comes after its status, and never after its refusal
\* (hub.go, subscribe and dropForbidden).
DataIsAnnounced == \A c \in Client : ~lagging[c] => Announced(heard[c], queue[c])

\* Once a check has answered that the permission is gone, nothing that needs it enters
\* the queue: neither the subject nor, on notifications, the frames of its source.
RevokedIsSilent ==
    [][\A c \in Client : at[c] = "serving" /\ ~knows[c] /\ Len(queue'[c]) > Len(queue[c])
                           => queue'[c][Len(queue'[c])].kind # "data"]_hubVars

\* The wait of the drain is never overtaken by a socket that comes in (hub.go, draining).
DrainIsFinal == run = "drained" => Served = {}

\* A socket that missed a frame is closed, whatever the follower goes on sending
\* (hub.go, offer).
SlowIsClosed == \A c \in Client : lagging[c] ~> at[c] = "out"
==============================================================================
