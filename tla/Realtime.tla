------------------------------- MODULE Realtime -------------------------------
(***************************************************************************)
(* Notifications and their live delivery: internal/notifications stores a  *)
(* notification and then publishes it, internal/realtime carries it to the *)
(* streams of its user, through bounded channels that drop what they have  *)
(* no room for, and with Redis in between when it is configured.           *)
(*                                                                         *)
(* The client is external: as Stream's comment has it, it refetches when   *)
(* it is told that it is connected and at every event.                     *)
(***************************************************************************)
EXTENDS Naturals, Sequences

CONSTANTS
    Note,    \* ids of notifications
    Stream,  \* connections a client may open, one after another
    Recipient,
    Owner,   \* [Note \cup Stream -> Recipient], the tenant included
    Buffer   \* capacity of a subscriber's channel (32)

ASSUME RealtimeAssumption ==
    /\ Owner \in [Note \cup Stream -> Recipient]
    /\ Buffer \in Nat \ {0}

VARIABLES
    transport,   \* "local" or "redis", chosen when the broker is made
    row,         \* [Note -> what the notifications table says]
    publishing,  \* notifications stored, whose Publish is still to come
    stream,      \* [Stream -> where its handler is]
    subs,        \* streams registered with the broker
    redisSubs,   \* streams whose Redis subscription is in force
    wire,        \* [Stream -> messages of Redis for its forwarder]
    outbox,      \* [Stream -> its channel of events]
    got,         \* [Stream -> events written on this connection]
    due,         \* streams whose client is to refetch
    known,       \* [Stream -> notifications its client has fetched]
    missed       \* [Stream -> notifications Redis has not carried to it]

server == <<stream, subs, redisSubs, wire, outbox, got>>
client == <<due, known>>
realtimeVars == <<transport, row, publishing, stream, subs, redisSubs, wire,
                  outbox, got, due, known, missed>>

Open(c) == stream[c] \in {"subscribed", "on"}

RealtimeTypeOK ==
    /\ transport \in {"local", "redis"}
    /\ row \in [Note -> {"absent", "unread", "read", "deleted"}]
    /\ publishing \in SUBSET Note
    /\ stream \in [Stream -> {"off", "subscribed", "on", "leaving"}]
    /\ subs = {c \in Stream : stream[c] # "off"}
    /\ redisSubs \in SUBSET subs
    /\ wire \in [Stream -> Seq(Note)] /\ outbox \in [Stream -> Seq(Note)]
    /\ got \in [Stream -> SUBSET Note] /\ known \in [Stream -> SUBSET Note]
    /\ missed \in [Stream -> SUBSET Note]
    /\ \A c \in Stream :
        /\ Len(outbox[c]) <= Buffer
        /\ c \notin redisSubs => wire[c] = <<>>
        /\ c \notin subs => outbox[c] = <<>>
    /\ due \in SUBSET Stream

-----------------------------------------------------------------------------
\* Notifications

\* Notify and NotifyMany: the rows of several users in one insert, and a
\* Publish for each when the insert has been committed.
Create(notes) ==
    /\ notes # {} /\ \A n \in notes : row[n] = "absent"
    /\ row' = [n \in Note |-> IF n \in notes THEN "unread" ELSE row[n]]

Notify(n) ==
    /\ Create({n})
    /\ publishing' = publishing \cup {n}
    /\ UNCHANGED <<transport, server, client, missed>>

NotifyMany(notes) ==
    /\ Create(notes)
    /\ publishing' = publishing \cup notes
    /\ UNCHANGED <<transport, server, client, missed>>

MarkRead(n) ==
    /\ row[n] = "unread"
    /\ row' = [row EXCEPT ![n] = "read"]
    /\ UNCHANGED <<transport, publishing, server, client, missed>>

MarkAllRead(u) ==
    /\ \E n \in Note : Owner[n] = u /\ row[n] = "unread"
    /\ row' = [n \in Note |-> IF Owner[n] = u /\ row[n] = "unread"
                              THEN "read" ELSE row[n]]
    /\ UNCHANGED <<transport, publishing, server, client, missed>>

Delete(n) ==
    /\ row[n] \in {"unread", "read"}
    /\ row' = [row EXCEPT ![n] = "deleted"]
    /\ UNCHANGED <<transport, publishing, server, client, missed>>

-----------------------------------------------------------------------------
\* Publication

Subscribers(n) == {c \in subs : Owner[c] = Owner[n]}

\* A send that does not block.
Offer(box, n) == IF Len(box) < Buffer THEN Append(box, n) ELSE box

\* Fault: the channel has no buffer, and the handler may be busy.
PublishUnbuffered(n) ==
    /\ transport = "local" /\ n \in publishing
    /\ \E ready \in SUBSET Subscribers(n) :
         outbox' = [c \in Stream |-> IF c \in ready THEN Offer(outbox[c], n) ELSE outbox[c]]
    /\ publishing' = publishing \ {n}
    /\ UNCHANGED <<transport, row, stream, subs, redisSubs, wire, got, client, missed>>

\* To every channel registered for the recipient, under the broker's lock.
PublishLocal(n) ==
    /\ transport = "local" /\ n \in publishing
    /\ outbox' = [c \in Stream |->
                    IF c \in Subscribers(n) THEN Offer(outbox[c], n) ELSE outbox[c]]
    /\ publishing' = publishing \ {n}
    /\ UNCHANGED <<transport, row, stream, subs, redisSubs, wire, got, client, missed>>

\* Redis hands a message to the subscriptions in force, and it may lose it for
\* any of them: an error of PUBLISH, a connection that is being made anew.
ToRedis(n, reached) ==
    /\ transport = "redis" /\ n \in publishing
    /\ reached \subseteq redisSubs \cap Subscribers(n)
    /\ wire' = [c \in Stream |-> IF c \in reached THEN Append(wire[c], n) ELSE wire[c]]
    /\ missed' = [c \in Stream |-> IF c \in Subscribers(n) \ reached
                                   THEN missed[c] \cup {n} ELSE missed[c]]
    /\ publishing' = publishing \ {n}

\* Fault: the event is fanned out on both ways.
PublishBothWays(n) ==
    \E reached \in SUBSET redisSubs :
        /\ ToRedis(n, reached)
        /\ outbox' = [c \in Stream |->
                        IF c \in Subscribers(n) THEN Offer(outbox[c], n) ELSE outbox[c]]
        /\ UNCHANGED <<transport, row, stream, subs, redisSubs, got, client>>

PublishRedis(n) ==
    \E reached \in SUBSET redisSubs :
        /\ ToRedis(n, reached)
        /\ UNCHANGED <<transport, row, stream, subs, redisSubs, outbox, got, client>>

\* The forwarder of a stream, which drops too when the channel is full.
Forward(c) ==
    /\ wire[c] # <<>>
    /\ outbox' = [outbox EXCEPT ![c] = Offer(@, Head(wire[c]))]
    /\ wire' = [wire EXCEPT ![c] = Tail(@)]
    /\ UNCHANGED <<transport, row, publishing, stream, subs, redisSubs, got, client, missed>>

-----------------------------------------------------------------------------
\* Streams

\* The channel is registered before the handler writes anything ...
Subscribe(c) ==
    /\ stream[c] = "off"
    /\ stream' = [stream EXCEPT ![c] = "subscribed"]
    /\ subs' = subs \cup {c}
    /\ got' = [got EXCEPT ![c] = {}]
    /\ known' = [known EXCEPT ![c] = {}]
    /\ missed' = [missed EXCEPT ![c] = {}]
    /\ UNCHANGED <<transport, row, publishing, redisSubs, wire, outbox, due>>

\* ... but Redis is only asked to subscribe, by a goroutine: nobody waits for
\* it to confirm.
ForwardRedis(c) ==
    /\ transport = "redis" /\ Open(c) /\ c \notin redisSubs
    /\ redisSubs' = redisSubs \cup {c}
    /\ UNCHANGED <<transport, row, publishing, stream, subs, wire, outbox, got, client, missed>>

\* "ready"
WriteReady(c) ==
    /\ stream[c] = "subscribed"
    /\ stream' = [stream EXCEPT ![c] = "on"]
    /\ due' = due \cup {c}
    /\ UNCHANGED <<transport, row, publishing, subs, redisSubs, wire, outbox, got, known, missed>>

\* The payload is compared with the caller before it is written.
WriteNotification(c) ==
    LET n == Head(outbox[c]) IN
    /\ stream[c] = "on" /\ outbox[c] # <<>>
    /\ outbox' = [outbox EXCEPT ![c] = Tail(@)]
    /\ IF Owner[n] = Owner[c]
       THEN /\ got' = [got EXCEPT ![c] = @ \cup {n}]
            /\ due' = due \cup {c}
       ELSE UNCHANGED <<got, due>>
    /\ UNCHANGED <<transport, row, publishing, stream, subs, redisSubs, wire, known, missed>>

\* The client leaves, or a write fails: until Unsubscribe its channel is still
\* there for publications, and nobody reads it.
Leave(c) ==
    /\ Open(c)
    /\ stream' = [stream EXCEPT ![c] = "leaving"]
    /\ due' = due \ {c}
    /\ UNCHANGED <<transport, row, publishing, subs, redisSubs, wire, outbox, got, known, missed>>

\* Once, by the handler or by the goroutine that waits for the context.
Unsubscribe(c) ==
    /\ stream[c] = "leaving"
    /\ stream' = [stream EXCEPT ![c] = "off"]
    /\ subs' = subs \ {c}
    /\ redisSubs' = redisSubs \ {c}
    /\ wire' = [wire EXCEPT ![c] = <<>>]
    /\ outbox' = [outbox EXCEPT ![c] = <<>>]
    /\ UNCHANGED <<transport, row, publishing, got, client, missed>>

\* A restart of the process that holds the streams.  With the local transport
\* it is the one that publishes, too; with Redis others go on publishing.
Restart ==
    /\ \E c \in Stream : Open(c)
    /\ stream' = [c \in Stream |-> "off"]
    /\ subs' = {} /\ redisSubs' = {} /\ due' = {}
    /\ wire' = [c \in Stream |-> <<>>]
    /\ outbox' = [c \in Stream |-> <<>>]
    /\ publishing' = IF transport = "local" THEN {} ELSE publishing
    /\ UNCHANGED <<transport, row, got, known, missed>>

\* A publisher of another instance stops between the insert and Publish.
PublisherStops(n) ==
    /\ transport = "redis" /\ n \in publishing
    /\ publishing' = publishing \ {n}
    /\ missed' = [c \in Stream |-> IF c \in Subscribers(n)
                                   THEN missed[c] \cup {n} ELSE missed[c]]
    /\ UNCHANGED <<transport, row, server, client>>

\* CountUnread, or the list.
Refetch(c) ==
    /\ stream[c] = "on" /\ c \in due
    /\ known' = [known EXCEPT ![c] = {n \in Note : row[n] # "absent" /\ Owner[n] = Owner[c]}]
    /\ due' = due \ {c}
    /\ UNCHANGED <<transport, row, publishing, server, missed>>

-----------------------------------------------------------------------------
\* Specification

RealtimeInit ==
    /\ transport \in {"local", "redis"}
    /\ row = [n \in Note |-> "absent"]
    /\ publishing = {}
    /\ stream = [c \in Stream |-> "off"]
    /\ subs = {} /\ redisSubs = {}
    /\ wire = [c \in Stream |-> <<>>]
    /\ outbox = [c \in Stream |-> <<>>]
    /\ got = [c \in Stream |-> {}]
    /\ due = {}
    /\ known = [c \in Stream |-> {}]
    /\ missed = [c \in Stream |-> {}]

RealtimeNext ==
    \/ \E notes \in SUBSET Note : NotifyMany(notes)
    \/ \E n \in Note : Notify(n) \/ MarkRead(n) \/ Delete(n)
    \/ \E u \in Recipient : MarkAllRead(u)
    \/ \E n \in Note : PublishLocal(n) \/ PublishRedis(n) \/ PublisherStops(n)
    \/ \E c \in Stream :
        \/ Subscribe(c) \/ ForwardRedis(c) \/ WriteReady(c)
        \/ Forward(c) \/ WriteNotification(c)
        \/ Leave(c) \/ Unsubscribe(c) \/ Refetch(c)
    \/ Restart

RealtimeSpec == RealtimeInit /\ [][RealtimeNext]_realtimeVars

\* Goroutines that can run do, and clients refetch; nobody has to connect, to
\* stay, or to send a notification.
RealtimeFairness ==
    /\ \A n \in Note : WF_realtimeVars(PublishLocal(n) \/ PublishRedis(n))
    /\ \A c \in Stream :
        /\ WF_realtimeVars(Forward(c))
        /\ WF_realtimeVars(WriteReady(c))
        /\ WF_realtimeVars(WriteNotification(c))
        /\ WF_realtimeVars(Unsubscribe(c))
        /\ WF_realtimeVars(Refetch(c))

RealtimeFairSpec == RealtimeSpec /\ RealtimeFairness

-----------------------------------------------------------------------------
\* Properties

\* A stream carries each event at most once, and only those of its user,
\* whichever way they came ("Transport selection is exclusive, not additive").
AtMostOnce ==
    [][\A c \in Stream, n \in Note :
        (n \in got'[c] \ got[c] \/ (WriteNotification(c) /\ n = Head(outbox[c]))) =>
            n \notin got[c] /\ Owner[n] = Owner[c]]_realtimeVars

\* A client that stays connected learns of every notification, those its
\* channel had no room for included: an event that is dropped has others before
\* it that make the client refetch.  Not so what Redis has not carried.
ClientsCatchUp ==
    \A c \in Stream, n \in Note :
        (Open(c) /\ row[n] = "unread" /\ Owner[n] = Owner[c]) ~>
            (n \in known[c] \/ ~Open(c) \/ row[n] # "unread" \/ n \in missed[c])
=============================================================================
