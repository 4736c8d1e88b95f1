---------------------------- MODULE PromptEvents ----------------------------
(***************************************************************************)
(* Who hears of a change: the embedded broker (internal/pubsub), the       *)
(* credentials it admits (natsAuth in main.go), the agents that run        *)
(* `priompt watch', and beside them the same credentials at the API        *)
(* (internal/auth, ListPrompts).  The two sides decide by different rules, *)
(* one over subjects and one over URIs, which have to agree.  What makes a *)
(* change, and when it is announced, is PromptServer's matter: here a      *)
(* publish and its event are one step.                                     *)
(***************************************************************************)
EXTENDS Integers, Sequences

CONSTANTS
    Agent,
    Uri,            \* prompt URIs, without the scheme, as sequences of characters
    Prefix,         \* what somebody lists, likewise; <<>> for no prefix
    Identity,       \* the credentials agents may have
    Config,         \* the ways a server may be started
    NotWatching,    \* no URI
    MaxEvents,      \* bound on events
    MaxTime         \* bound on the clock

VARIABLES
    config,         \* how the server was started
    who,            \* each agent's credential
    now,
    stored,         \* the prompts there are
    watched,        \* the URI each agent watches
    conn,           \* its connection to the broker
    inbox,          \* the events on their way to it
    hook,           \* the last event its hook ran for
    sent            \* how many events there were

agentVars == <<watched, conn, inbox, hook>>
vars == <<config, who, now, stored, agentVars, sent>>

(* An identity: its org (<<>>: an administrator), whether it may write,    *)
(* when it expires (0: never), and whether it is the broker's own          *)
(* credential, the one the server publishes with.                          *)
IsIdentity(i) ==
    /\ i \in [org : Seq(STRING), write : BOOLEAN, expires : Nat, broker : BOOLEAN]
    /\ \A k \in 1 .. Len(i.org) : i.org[k] \notin {"/", "%2E"}
    /\ i.broker => i.org = <<>> /\ i.expires = 0

(* A URI has an org and something in it, and no segment has a "%".  *)
IsUri(u) ==
    /\ u \in Seq(STRING)
    /\ \A k \in 1 .. Len(u) : u[k] # "%2E"
    /\ \E k \in 2 .. Len(u) - 1 : u[k] = "/" /\ \A j \in 1 .. k - 1 : u[j] # "/"

(* An event on its way: the prompt and who sent it.  Its body, the version *)
(* hash and the class, is PromptServer's matter.                           *)
Event == [uri : Uri, by : Agent \cup {"server"}]

(* Whether users are configured, a broker token set (-nats-token), and the *)
(* API authenticates its callers; main.go sets no users.                   *)
Configs == [users : BOOLEAN, token : BOOLEAN, providers : BOOLEAN]

Closed == [open |-> FALSE, allow |-> <<>>, publish |-> FALSE, deadline |-> 0,
           subscribed |-> FALSE]

-----------------------------------------------------------------------------

(* Texts.  The mutations here and below are bugs the properties are shown  *)
(* to catch; no behaviour uses them.                                       *)
StartsWith(t, p) == Len(p) <= Len(t) /\ \A k \in 1 .. Len(p) : t[k] = p[k]

Slash(u) == CHOOSE k \in 1 .. Len(u) : u[k] = "/" /\ \A j \in 1 .. k - 1 : u[j] # "/"

(* validate.Org: the first segment of a URI.  *)
OrgOf(u) == SubSeq(u, 1, Slash(u) - 1)

(* subjectToken: of the characters a URI segment may have only the dot is  *)
(* outside of [A-Za-z0-9_-]; its escape is a symbol of its own here.       *)
EncodeNothing(c) == c       \* mutation: segments become tokens as they are
Encode(c) == IF c = "." THEN "%2E" ELSE c

(* Subject, less the token "priompt" that all subjects begin with.  *)
Subject(u) == [k \in 1 .. Len(u) |-> IF u[k] = "/" THEN "." ELSE Encode(u[k])]

(* A permission to subscribe, P.>, as the P. that subjects begin with.  *)
AnyPrompt == <<>>
RawOrgSubject(o) == Append(o, ".")       \* mutation: the org is not encoded
NoSeparator(o) ==       \* mutation: nothing ends the org
    [k \in 1 .. Len(o) |-> Encode(o[k])]
OrgSubject(o) == Append([k \in 1 .. Len(o) |-> Encode(o[k])], ".")
Covers(p, s) == Len(p) < Len(s) /\ StartsWith(s, p)

-----------------------------------------------------------------------------

(* Config.options: how the broker decides whom it admits.  *)
Access ==
    CASE config.users -> "users"
      [] ~config.users /\ config.token /\ config.providers -> "api"
      [] ~config.users /\ config.token /\ ~config.providers -> "token"
      [] ~config.users /\ ~config.token -> "open"

(* A provider recognises the credential and it has not expired (natsAuth). *)
Valid(i) == ~i.broker /\ (i.expires = 0 \/ now < i.expires)

Allowed(o) == IF o = <<>> THEN AnyPrompt ELSE OrgSubject(o)

Full == [allow |-> AnyPrompt, publish |-> TRUE, deadline |-> 0]

UserGrant(i) == [allow |-> Allowed(i.org), publish |-> i.broker, deadline |-> 0]

(* clientAuth.Check *)
NoDeadline(i) ==        \* mutation: the connection is not given the expiry
    IF i.broker THEN Full ELSE [allow |-> Allowed(i.org), publish |-> FALSE, deadline |-> 0]
MayPublish(i) ==        \* mutation: publishing is not denied
    IF i.broker THEN Full ELSE [allow |-> Allowed(i.org), publish |-> TRUE, deadline |-> i.expires]
Check(i) ==
    IF i.broker THEN Full
    ELSE [allow |-> Allowed(i.org), publish |-> FALSE, deadline |-> i.expires]

Admits(i) ==
    CASE Access \in {"users", "open"} -> TRUE
      [] Access = "api" -> i.broker \/ Valid(i)
      [] Access = "token" -> i.broker

Grant(i) ==
    CASE Access = "users" -> UserGrant(i)
      [] Access = "api" -> Check(i)
      [] Access \in {"token", "open"} -> Full

(* What a connection with grant g is, once it has subscribed to u.  *)
Connection(g, u) ==
    [open |-> TRUE, allow |-> g.allow, publish |-> g.publish, deadline |-> g.deadline,
     subscribed |-> Covers(g.allow, Subject(u))]

(* The API.  Without providers callers have no identity and may do all.    *)
MayCall(i) == config.providers => Valid(i)
Scope(i) == IF config.providers THEN i.org ELSE <<>>
RequireWrite(i) == config.providers => i.write
Authorize(i, u) == Scope(i) = <<>> \/ Scope(i) = OrgOf(u)
AuthorizePrefix(i, p) ==
    Scope(i) = <<>> \/ p = Scope(i) \/ StartsWith(p, Append(Scope(i), "/"))
AnyInScope(i, u) == TRUE        \* mutation: the results are not filtered
InScope(i, u) == Scope(i) = <<>> \/ Scope(i) = OrgOf(u)

(* ListPrompts: the prefix that is listed, and the entries returned.  *)
Listed(i, p) == IF p = <<>> /\ Scope(i) # <<>> THEN Append(Scope(i), "/") ELSE p
ListPrompts(i, p) == {u \in stored : StartsWith(u, Listed(i, p)) /\ InScope(i, u)}

-----------------------------------------------------------------------------

ASSUME EventsAssumption ==
    /\ \A i \in Identity : IsIdentity(i)
    /\ Config \subseteq Configs
    /\ \A u \in Uri : IsUri(u)
    /\ \A p \in Prefix : p \in Seq(STRING)
    /\ NotWatching \notin Uri
    /\ "server" \notin Agent
    /\ MaxEvents \in Nat /\ MaxTime \in Nat

Server == [org |-> <<>>, write |-> TRUE, expires |-> 0, broker |-> TRUE]

NoHook == <<>>

Init ==
    /\ config \in Config
    /\ who \in [Agent -> Identity]
    /\ now = 0
    /\ stored = {}
    /\ watched = [a \in Agent |-> NotWatching]
    /\ conn = [a \in Agent |-> Closed]
    /\ inbox = [a \in Agent |-> <<>>]
    /\ hook = [a \in Agent |-> NoHook]
    /\ sent = 0

Hears(a, u) ==
    conn[a].open /\ conn[a].subscribed /\ Subject(watched[a]) = Subject(u)

(* Bus.Publish, or an agent's own: to whoever is subscribed.  *)
Send(u, by) ==
    inbox' = [a \in Agent |-> IF Hears(a, u) THEN Append(inbox[a], [uri |-> u, by |-> by])
                                             ELSE inbox[a]]

(* The RPC, in an agent's name or anybody's; its event may not get out.  *)
PublishPrompt ==
    /\ sent < MaxEvents
    /\ sent' = sent + 1
    /\ \E a \in Agent, u \in Uri :
          /\ MayCall(who[a]) /\ RequireWrite(who[a]) /\ Authorize(who[a], u)
          /\ stored' = stored \cup {u}
          /\ \/ Admits(Server) /\ Grant(Server).publish /\ Send(u, "server")
             \/ UNCHANGED inbox
    /\ UNCHANGED <<config, who, now, watched, conn, hook>>

(* A client of the broker that publishes itself, where it may.  *)
AgentPublishes ==
    /\ sent < MaxEvents
    /\ sent' = sent + 1
    /\ \E a \in Agent, u \in Uri : conn[a].open /\ conn[a].publish /\ Send(u, a)
    /\ UNCHANGED <<config, who, now, stored, watched, conn, hook>>

(* watch: connect, subscribe; a process the broker refuses exits.  *)
Watch(a, u) ==
    /\ watched[a] = NotWatching
    /\ Admits(who[a])
    /\ watched' = [watched EXCEPT ![a] = u]
    /\ conn' = [conn EXCEPT ![a] = Connection(Grant(who[a]), u)]
    /\ UNCHANGED <<config, who, now, stored, inbox, hook, sent>>

(* The client library connects again, and subscribes again.  *)
Reconnect(a) ==
    /\ watched[a] # NotWatching /\ ~conn[a].open
    /\ Admits(who[a])
    /\ conn' = [conn EXCEPT ![a] = Connection(Grant(who[a]), watched[a])]
    /\ UNCHANGED <<config, who, now, stored, watched, inbox, hook, sent>>

(* The connection is lost, or closed by the broker because its deadline    *)
(* has come, with or without what was on its way.                          *)
Disconnect(a) ==
    /\ conn[a].open
    /\ conn' = [conn EXCEPT ![a] = Closed]
    /\ inbox' \in {inbox, [inbox EXCEPT ![a] = <<>>]}
    /\ UNCHANGED <<config, who, now, stored, watched, hook, sent>>

(* watch's callback: the hook runs, one event after the other.  *)
Receive(a) ==
    /\ inbox[a] # <<>>
    /\ hook' = [hook EXCEPT ![a] = <<Head(inbox[a])>>]
    /\ inbox' = [inbox EXCEPT ![a] = Tail(@)]
    /\ UNCHANGED <<config, who, now, stored, watched, conn, sent>>

(* Ctrl-C.  *)
LeavesOpen(a) ==        \* mutation: the subscription is dropped, the connection is not
    /\ watched[a] # NotWatching
    /\ watched' = [watched EXCEPT ![a] = NotWatching]
    /\ hook' = [hook EXCEPT ![a] = NoHook]
    /\ UNCHANGED <<config, who, now, stored, conn, inbox, sent>>
Stop(a) ==
    /\ watched[a] # NotWatching
    /\ watched' = [watched EXCEPT ![a] = NotWatching]
    /\ conn' = [conn EXCEPT ![a] = Closed]
    /\ inbox' = [inbox EXCEPT ![a] = <<>>]
    /\ hook' = [hook EXCEPT ![a] = NoHook]
    /\ UNCHANGED <<config, who, now, stored, sent>>

(* The broker's timer closes a connection whose deadline has come before   *)
(* the clock moves on.                                                     *)
Tick ==
    /\ now < MaxTime
    /\ \A a \in Agent : conn[a].open => conn[a].deadline = 0 \/ now < conn[a].deadline
    /\ now' = now + 1
    /\ UNCHANGED <<config, who, stored, agentVars, sent>>

Next ==
    \/ PublishPrompt \/ AgentPublishes \/ Tick
    \/ \E a \in Agent :
          \/ \E u \in Uri : Watch(a, u)
          \/ Reconnect(a) \/ Disconnect(a) \/ Receive(a) \/ Stop(a)

Spec == Init /\ [][Next]_vars

-----------------------------------------------------------------------------

(* The events that reached a: on their way, or last handled.  *)
Heard(a) ==
    {inbox[a][k] : k \in 1 .. Len(inbox[a])} \cup (IF hook[a] = NoHook THEN {} ELSE {hook[a][1]})

(* Type invariant: connections and events are well formed.                 *)
TypeOK ==
    /\ config \in Config
    /\ who \in [Agent -> Identity]
    /\ now \in 0 .. MaxTime
    /\ stored \subseteq Uri
    /\ watched \in [Agent -> Uri \cup {NotWatching}]
    /\ \A a \in Agent :
          /\ inbox[a] \in Seq(Event)
          /\ hook[a] # NoHook => hook[a][1] \in Event
          /\ conn[a].open => watched[a] # NotWatching
    /\ sent \in 0 .. MaxEvents

(* pubsub.go 49-52 and 100-108: a credential of one org hears of that      *)
(* org's prompts alone, whatever it watches and however it came to be      *)
(* connected.                                                              *)
HearsOwnOrg ==
    Access # "open" =>
        \A a \in Agent : \A e \in Heard(a) : who[a].org \in {<<>>, OrgOf(e.uri)}

(* pubsub.go 36-40: distinct URIs have distinct subjects, so watch reports *)
(* changes of the prompt it watches and of no other.                       *)
HearsItsPrompt == \A a \in Agent : \A e \in Heard(a) : e.uri = watched[a]

(* pubsub.go 92-93: a credential that may read a prompt over the API may   *)
(* watch it.                                                               *)
ReaderMayWatch ==
    Access = "api" =>
        \A a \in Agent : conn[a].open /\ Authorize(who[a], watched[a]) => conn[a].subscribed

(* pubsub.go 100-103: every event comes from the server, or from a holder  *)
(* of the credential the server publishes with.                            *)
OnlyPublishersAreHeard ==
    Access # "open" =>
        \A a \in Agent : \A e \in Heard(a) : e.by = "server" \/ who[e.by].broker

(* pubsub.go 232, "the subscription must not outlive the token": nothing   *)
(* is sent to an agent after its API credential has expired.               *)
NothingSentAfterExpiry ==
    [][\A a \in Agent :
         Access = "api" /\ Len(inbox'[a]) > Len(inbox[a]) =>
             who[a].expires = 0 \/ now <= who[a].expires]_vars

(* server.go 155-159: a listing that is not refused is what the caller may *)
(* read under the prefix, no less and nothing else.                        *)
ListingsAreExact ==
    \A a \in Agent, p \in Prefix :
        MayCall(who[a]) /\ AuthorizePrefix(who[a], Listed(who[a], p)) =>
            ListPrompts(who[a], p) =
                {u \in stored : StartsWith(u, p) /\ Authorize(who[a], u)}
=============================================================================
