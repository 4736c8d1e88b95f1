------------------------- MODULE PromptEventsProofs -------------------------
(***************************************************************************)
(* What PromptEvents promises, for all agents, URIs, credentials and ways  *)
(* to start the server: subjects tell URIs apart and permissions cover     *)
(* just their org's, so an agent hears of its own prompt, of its own org,  *)
(* from the server, while its credential lasts.                            *)
(***************************************************************************)
EXTENDS PromptEvents, SequenceTheorems, TLAPS

-----------------------------------------------------------------------------
(* Texts and subjects.  *)

LEMMA SlashIs ==
    ASSUME NEW u \in Uri
    PROVE  /\ Slash(u) \in 2 .. Len(u) - 1 /\ u[Slash(u)] = "/"
           /\ \A j \in 1 .. Slash(u) - 1 : u[j] # "/"
           /\ Len(u) \in Nat
  <1>1. /\ Len(u) \in Nat
        /\ \E k \in 2 .. Len(u) - 1 : u[k] = "/" /\ \A j \in 1 .. k - 1 : u[j] # "/"
    BY EventsAssumption DEF IsUri
  <1>2. PICK k \in 2 .. Len(u) - 1 : u[k] = "/" /\ \A j \in 1 .. k - 1 : u[j] # "/"
    BY <1>1
  <1>3. k \in 1 .. Len(u)
    BY <1>1, <1>2
  <1>4. /\ Slash(u) \in 1 .. Len(u) /\ u[Slash(u)] = "/"
        /\ \A j \in 1 .. Slash(u) - 1 : u[j] # "/"
    BY <1>2, <1>3 DEF Slash
  <1>5. Slash(u) = k
    BY <1>1, <1>2, <1>4
  <1> QED
    BY <1>1, <1>2, <1>5

LEMMA OrgIs ==
    ASSUME NEW u \in Uri
    PROVE  /\ OrgOf(u) \in Seq(STRING) /\ Len(OrgOf(u)) = Slash(u) - 1
           /\ \A k \in 1 .. Slash(u) - 1 : OrgOf(u)[k] = u[k]
  <1>1. u \in Seq(STRING)
    BY EventsAssumption DEF IsUri
  <1> QED
    BY <1>1, SlashIs DEF OrgOf

LEMMA SubjectIs ==
    ASSUME NEW u \in Uri
    PROVE  /\ Len(Subject(u)) = Len(u)
           /\ \A k \in 1 .. Len(u) :
                 Subject(u)[k] = IF u[k] = "/" THEN "." ELSE Encode(u[k])
  <1>1. Len(u) \in Nat
    BY SlashIs
  <1> QED
    BY <1>1 DEF Subject

LEMMA OrgSubjectIs ==
    ASSUME NEW o \in Seq(STRING)
    PROVE  /\ Len(OrgSubject(o)) = Len(o) + 1
           /\ \A k \in 1 .. Len(o) : OrgSubject(o)[k] = Encode(o[k])
           /\ OrgSubject(o)[Len(o) + 1] = "."
  <1> DEFINE e == [k \in 1 .. Len(o) |-> Encode(o[k])]
             T == {Encode(c) : c \in STRING} \cup {"."}
  <1>1. \A k \in 1 .. Len(o) : o[k] \in STRING
    OBVIOUS
  <1>2. (\A k \in 1 .. Len(o) : Encode(o[k]) \in T) /\ "." \in T /\ Len(o) \in Nat
    BY <1>1
  <1> HIDE DEF T
  <1>3. e \in Seq(T) /\ Len(e) = Len(o)
    BY <1>2
  <1>4. OrgSubject(o) = Append(e, ".")
    BY DEF OrgSubject
  <1>5. \A k \in 1 .. Len(o) : e[k] = Encode(o[k])
    OBVIOUS
  <1> HIDE DEF e
  <1>6. Len(OrgSubject(o)) = Len(o) + 1 /\ OrgSubject(o)[Len(o) + 1] = "."
    BY <1>2, <1>3, <1>4
  <1>7. \A k \in 1 .. Len(o) : OrgSubject(o)[k] = e[k]
    BY <1>2, <1>3, <1>4
  <1> QED
    BY <1>5, <1>6, <1>7

(* The encoding never yields a separator, and no two characters meet.  *)
LEMMA EncodeKeepsApart ==
    /\ \A c : Encode(c) # "."
    /\ \A c, d : c # "%2E" /\ d # "%2E" /\ Encode(c) = Encode(d) => c = d
  BY DEF Encode

(* pubsub.go 36-40: distinct URIs always get distinct subjects.  *)
THEOREM SubjectInjective == \A u, w \in Uri : Subject(u) = Subject(w) => u = w
  <1> SUFFICES ASSUME NEW u \in Uri, NEW w \in Uri, Subject(u) = Subject(w)
               PROVE  u = w
    OBVIOUS
  <1>1. u \in Seq(STRING) /\ w \in Seq(STRING)
        /\ (\A k \in 1 .. Len(u) : u[k] # "%2E") /\ (\A k \in 1 .. Len(w) : w[k] # "%2E")
    BY EventsAssumption DEF IsUri
  <1>2. Len(u) = Len(w)
    BY SubjectIs
  <1>3. ASSUME NEW k \in 1 .. Len(u) PROVE u[k] = w[k]
    <2>1. (IF u[k] = "/" THEN "." ELSE Encode(u[k]))
          = (IF w[k] = "/" THEN "." ELSE Encode(w[k]))
      BY <1>2, SubjectIs
    <2> QED
      BY <1>1, <1>2, <2>1, EncodeKeepsApart
  <1> QED
    BY <1>1, <1>2, <1>3

(* pubsub.go 49-52: the wildcard of an org covers the org's prompts and no *)
(* others, however the names of orgs begin and wherever they have dots.    *)
THEOREM OrgSubjectExact ==
    \A i \in Identity, u \in Uri :
        i.org # <<>> => (Covers(OrgSubject(i.org), Subject(u)) <=> i.org = OrgOf(u))
  <1> SUFFICES ASSUME NEW i \in Identity, NEW u \in Uri
               PROVE  Covers(OrgSubject(i.org), Subject(u)) <=> i.org = OrgOf(u)
    OBVIOUS
  <1> DEFINE o == i.org
  <1>1. o \in Seq(STRING) /\ \A k \in 1 .. Len(o) : o[k] # "/" /\ o[k] # "%2E"
    BY EventsAssumption DEF IsIdentity
  <1>2. Len(o) \in Nat
    BY <1>1
  <1>3. /\ u \in Seq(STRING) /\ Len(u) \in Nat
        /\ \A k \in 1 .. Len(u) : u[k] # "%2E"
    BY EventsAssumption DEF IsUri
  <1> HIDE DEF o
  <1>4. ASSUME Covers(OrgSubject(o), Subject(u)) PROVE o = OrgOf(u)
    <2>1. Len(o) + 1 < Len(u)
          /\ \A k \in 1 .. Len(o) + 1 : Subject(u)[k] = OrgSubject(o)[k]
      BY <1>1, <1>4, OrgSubjectIs, SubjectIs DEF Covers, StartsWith
    <2>2. \A k \in 1 .. Len(o) : u[k] = o[k]
      <3> SUFFICES ASSUME NEW k \in 1 .. Len(o) PROVE u[k] = o[k]
        OBVIOUS
      <3>1. k \in 1 .. Len(o) + 1 /\ k \in 1 .. Len(u)
        BY <1>2, <1>3, <2>1
      <3>2. (IF u[k] = "/" THEN "." ELSE Encode(u[k])) = Encode(o[k])
        BY <1>1, <2>1, <3>1, OrgSubjectIs, SubjectIs
      <3> QED
        BY <1>1, <1>3, <3>1, <3>2, EncodeKeepsApart
    <2>3. u[Len(o) + 1] = "/"
      <3>1. Len(o) + 1 \in 1 .. Len(o) + 1 /\ Len(o) + 1 \in 1 .. Len(u)
        BY <1>2, <1>3, <2>1
      <3>2. (IF u[Len(o) + 1] = "/" THEN "." ELSE Encode(u[Len(o) + 1])) = "."
        BY <1>1, <2>1, <3>1, OrgSubjectIs, SubjectIs
      <3> QED
        BY <3>2, EncodeKeepsApart
    <2>4. \A k \in 1 .. Len(o) : u[k] # "/"
      BY <1>1, <2>2
    <2>5. Slash(u) = Len(o) + 1
      <3>1. ~(Slash(u) < Len(o) + 1)
        BY <1>2, <2>4, SlashIs
      <3>2. ~(Len(o) + 1 < Slash(u))
        BY <1>2, <2>3, SlashIs
      <3> QED
        BY <1>2, <3>1, <3>2, SlashIs
    <2>6. OrgOf(u) \in Seq(STRING) /\ Len(OrgOf(u)) = Len(o)
          /\ \A k \in 1 .. Len(o) : OrgOf(u)[k] = o[k]
      BY <1>2, <2>2, <2>5, OrgIs
    <2> QED
      BY <1>1, <2>6
  <1>5. ASSUME o = OrgOf(u) PROVE Covers(OrgSubject(o), Subject(u))
    <2>1. Len(o) = Slash(u) - 1 /\ \A k \in 1 .. Len(o) : o[k] = u[k]
      BY <1>5, OrgIs
    <2>2. Len(o) + 1 = Slash(u) /\ Len(o) + 1 < Len(u)
      BY <2>1, <1>2, <1>3, SlashIs
    <2>3. Len(OrgSubject(o)) = Len(o) + 1 /\ Len(Subject(u)) = Len(u)
      BY <1>1, OrgSubjectIs, SubjectIs
    <2>4. ASSUME NEW k \in 1 .. Len(o) + 1 PROVE Subject(u)[k] = OrgSubject(o)[k]
      <3>1. k \in 1 .. Len(u)
        BY <1>2, <1>3, <2>2
      <3>2. Subject(u)[k] = IF u[k] = "/" THEN "." ELSE Encode(u[k])
        BY <3>1, SubjectIs
      <3>3. CASE k \in 1 .. Len(o)
        BY <1>1, <2>1, <3>2, <3>3, OrgSubjectIs
      <3>4. CASE k = Len(o) + 1
        BY <1>1, <2>2, <3>2, <3>4, OrgSubjectIs, SlashIs
      <3> QED
        BY <1>2, <3>3, <3>4
    <2> QED
      BY <2>2, <2>3, <2>4 DEF Covers, StartsWith
  <1> QED
    BY <1>4, <1>5 DEF o

-----------------------------------------------------------------------------
(* Connections.  *)

LEMMA AccessIs ==
    ASSUME config \in Configs
    PROVE  /\ Access \in {"users", "api", "token", "open"}
           /\ Access = "api" => config.providers
  BY DEF Access, Configs

(* A subject covered by the permission of an org is of the org.  *)
LEMMA AllowedExact ==
    ASSUME NEW i \in Identity, NEW u \in Uri
    PROVE  Covers(Allowed(i.org), Subject(u)) <=> i.org \in {<<>>, OrgOf(u)}
  <1>1. CASE i.org = <<>>
    <2>1. Len(Subject(u)) \in Nat /\ 0 < Len(Subject(u))
      BY SlashIs, SubjectIs
    <2>2. Len(AnyPrompt) = 0
      BY DEF AnyPrompt
    <2>3. Covers(AnyPrompt, Subject(u))
      BY <2>1, <2>2 DEF Covers, StartsWith
    <2> QED
      BY <1>1, <2>3 DEF Allowed
  <1>2. CASE i.org # <<>>
    BY <1>2, OrgSubjectExact DEF Allowed
  <1> QED
    BY <1>1, <1>2

(* What an open connection carries from the credential it was opened with. *)
ConnOK(a) ==
    conn[a].open =>
        /\ watched[a] \in Uri
        /\ conn[a].subscribed /\ Access # "open" => who[a].org \in {<<>>, OrgOf(watched[a])}
        /\ conn[a].publish /\ Access # "open" => who[a].broker
        /\ Access = "api" => conn[a].deadline = who[a].expires
        /\ Access = "api" => (who[a].expires = 0 \/ now <= who[a].expires)
        /\ Access = "api" /\ Authorize(who[a], watched[a]) => conn[a].subscribed

LEMMA Connects ==
    ASSUME config \in Configs, NEW i \in Identity, NEW u \in Uri, Admits(i), now \in Nat,
           NEW c, c = Connection(Grant(i), u)
    PROVE  /\ c.open
           /\ c.subscribed /\ Access # "open" => i.org \in {<<>>, OrgOf(u)}
           /\ c.publish /\ Access # "open" => i.broker
           /\ Access = "api" => c.deadline = i.expires
           /\ Access = "api" => (i.expires = 0 \/ now <= i.expires)
           /\ Access = "api" /\ Authorize(i, u) => c.subscribed
  <1>1. /\ i.broker \in BOOLEAN /\ i.expires \in Nat
        /\ i.broker => i.org = <<>> /\ i.expires = 0
    BY EventsAssumption DEF IsIdentity
  <1>2. /\ c.open /\ c.publish = Grant(i).publish /\ c.deadline = Grant(i).deadline
        /\ c.subscribed <=> Covers(Grant(i).allow, Subject(u))
    BY DEF Connection
  <1>3. Allowed(<<>>) = AnyPrompt
    BY DEF Allowed
  <1>4. CASE Access = "users"
    <2>1. Grant(i) = UserGrant(i)
      BY <1>4 DEF Grant
    <2> QED
      BY <1>1, <1>2, <1>4, <2>1, AllowedExact DEF UserGrant
  <1>5. CASE Access = "api"
    <2>1. Grant(i) = Check(i) /\ (i.broker \/ Valid(i))
      BY <1>5 DEF Grant, Admits
    <2>2. Check(i).deadline = i.expires /\ (Check(i).publish <=> i.broker)
          /\ Check(i).allow = Allowed(i.org)
      BY <1>1, <1>3 DEF Check, Full
    <2>3. Authorize(i, u) => i.org \in {<<>>, OrgOf(u)}
      BY <1>5, AccessIs DEF Authorize, Scope
    <2>4. i.expires = 0 \/ now <= i.expires
      BY <1>1, <2>1 DEF Valid
    <2> QED
      BY <1>2, <1>5, <2>1, <2>2, <2>3, <2>4, AllowedExact
  <1>6. CASE Access = "token"
    BY <1>1, <1>2, <1>6 DEF Admits
  <1>7. CASE Access = "open"
    BY <1>2, <1>7
  <1> QED
    BY <1>4, <1>5, <1>6, <1>7, AccessIs

-----------------------------------------------------------------------------
(* The inductive invariant: an agent's events are right because of how its *)
(* connection was made, and stay so because it watches one prompt.         *)

EventOK(a, e) ==
    /\ e.uri = watched[a]
    /\ Access # "open" => who[a].org \in {<<>>, OrgOf(e.uri)}
    /\ Access # "open" => e.by = "server" \/ who[e.by].broker

MailOK(a) ==
    /\ inbox[a] \in Seq(Event)
    /\ \A k \in 1 .. Len(inbox[a]) : EventOK(a, inbox[a][k])

HookOK(a) == hook[a] # NoHook => hook[a][1] \in Event /\ EventOK(a, hook[a][1])

Inv ==
    /\ config \in Configs
    /\ who \in [Agent -> Identity]
    /\ now \in Nat
    /\ stored \subseteq Uri
    /\ watched \in [Agent -> Uri \cup {NotWatching}]
    /\ DOMAIN conn = Agent /\ DOMAIN inbox = Agent /\ DOMAIN hook = Agent
    /\ \A a \in Agent : ConnOK(a) /\ MailOK(a) /\ HookOK(a)

(* No step changes how the server was started, or a credential.  *)
Fixed == config' = config /\ who' = who /\ stored' \subseteq Uri

LEMMA AccessFixed == Fixed => Access' = Access
  BY DEF Fixed, Access

LEMMA ConnStays ==
    ASSUME Fixed, NEW a \in Agent, ConnOK(a), conn'[a] = conn[a], watched'[a] = watched[a],
           now' = now
    PROVE  ConnOK(a)'
  BY AccessFixed DEF ConnOK, Fixed, Authorize, Scope

LEMMA MailStays ==
    ASSUME Fixed, NEW a \in Agent, MailOK(a), inbox'[a] = inbox[a], watched'[a] = watched[a]
    PROVE  MailOK(a)'
  BY AccessFixed DEF MailOK, EventOK, Fixed

LEMMA HookStays ==
    ASSUME Fixed, NEW a \in Agent, HookOK(a), hook'[a] = hook[a], watched'[a] = watched[a]
    PROVE  HookOK(a)'
  BY AccessFixed DEF HookOK, EventOK, Fixed

LEMMA NoMail ==
    ASSUME NEW a \in Agent, inbox'[a] = <<>>
    PROVE  MailOK(a)'
  <1>1. inbox'[a] \in Seq(Event) /\ Len(inbox'[a]) = 0
    BY EmptySeq
  <1> QED
    BY <1>1 DEF MailOK

(* An event handed to the broker by the server, or by an agent that may    *)
(* publish, goes to those who watch its prompt and may hear of it.         *)
LEMMA SendStep ==
    ASSUME Inv, Fixed, NEW u \in Uri, NEW by \in Agent \cup {"server"},
           Access # "open" => by = "server" \/ who[by].broker,
           Send(u, by), watched' = watched, NEW a \in Agent
    PROVE  MailOK(a)'
  <1> DEFINE e == [uri |-> u, by |-> by]
  <1>1. e \in Event
    BY DEF Event
  <1>2. inbox'[a] = IF Hears(a, u) THEN Append(inbox[a], e) ELSE inbox[a]
    BY DEF Send
  <1>3. MailOK(a) /\ ConnOK(a)
    BY DEF Inv
  <1>4. CASE ~Hears(a, u)
    BY <1>2, <1>3, <1>4, MailStays
  <1>5. CASE Hears(a, u)
    <2>1. conn[a].open /\ conn[a].subscribed /\ watched[a] = u
      BY <1>3, <1>5, SubjectInjective DEF Hears, ConnOK
    <2>2. e.uri = u /\ e.by = by
      OBVIOUS
    <2> HIDE DEF e
    <2>3. EventOK(a, e)
      BY <1>3, <2>1, <2>2 DEF EventOK, ConnOK
    <2>4. EventOK(a, e)'
      BY <2>3, AccessFixed DEF EventOK, Fixed
    <2>5. inbox'[a] = Append(inbox[a], e) /\ inbox[a] \in Seq(Event)
      BY <1>2, <1>3, <1>5 DEF MailOK
    <2>6. /\ inbox'[a] \in Seq(Event) /\ Len(inbox'[a]) = Len(inbox[a]) + 1
          /\ Len(inbox[a]) \in Nat /\ inbox'[a][Len(inbox[a]) + 1] = e
          /\ \A k \in 1 .. Len(inbox[a]) : inbox'[a][k] = inbox[a][k]
      BY <1>1, <2>5
    <2>7. ASSUME NEW k \in 1 .. Len(inbox'[a]) PROVE EventOK(a, inbox[a][k])'
      <3>1. CASE k = Len(inbox[a]) + 1
        BY <2>4, <2>6, <3>1 DEF EventOK
      <3>2. CASE k \in 1 .. Len(inbox[a])
        <4>1. EventOK(a, inbox[a][k]) /\ inbox'[a][k] = inbox[a][k]
          BY <1>3, <2>6, <3>2 DEF MailOK
        <4> QED
          BY <4>1, AccessFixed DEF EventOK, Fixed
      <3> QED
        BY <2>6, <3>1, <3>2
    <2> QED
      BY <2>6, <2>7 DEF MailOK
  <1> QED
    BY <1>4, <1>5

LEMMA PublishStep == ASSUME Inv, PublishPrompt PROVE Inv'
  <1>1. Fixed /\ watched' = watched /\ conn' = conn /\ hook' = hook /\ now' = now
    BY DEF Inv, PublishPrompt, Fixed
  <1>2. DOMAIN inbox' = Agent
    BY DEF PublishPrompt, Send, Inv
  <1>3. ASSUME NEW a \in Agent PROVE ConnOK(a)' /\ MailOK(a)' /\ HookOK(a)'
    <2>1. ConnOK(a)' /\ HookOK(a)'
      BY <1>1, ConnStays, HookStays DEF Inv
    <2>2. CASE inbox' = inbox
      BY <1>1, <2>1, <2>2, MailStays DEF Inv
    <2>3. ASSUME NEW u \in Uri, Send(u, "server") PROVE MailOK(a)'
      BY <1>1, <2>3, SendStep
    <2> QED
      BY <2>1, <2>2, <2>3 DEF PublishPrompt
  <1> QED
    BY <1>1, <1>2, <1>3 DEF Inv, Fixed

LEMMA AgentPublishesStep == ASSUME Inv, AgentPublishes PROVE Inv'
  <1>1. Fixed /\ watched' = watched /\ conn' = conn /\ hook' = hook /\ now' = now
    BY DEF Inv, AgentPublishes, Fixed
  <1>2. PICK p \in Agent, u \in Uri : conn[p].open /\ conn[p].publish /\ Send(u, p)
    BY DEF AgentPublishes
  <1>3. DOMAIN inbox' = Agent
    BY <1>2 DEF Send
  <1>4. Access # "open" => who[p].broker
    BY <1>2 DEF Inv, ConnOK
  <1>5. ASSUME NEW a \in Agent PROVE ConnOK(a)' /\ MailOK(a)' /\ HookOK(a)'
    BY <1>1, <1>2, <1>4, ConnStays, HookStays, SendStep DEF Inv
  <1> QED
    BY <1>1, <1>3, <1>5 DEF Inv, Fixed

(* The clock never passes the expiry of a connection that is open.  *)
LEMMA TickStep == ASSUME Inv, Tick PROVE Inv'
  <1>1. /\ Fixed /\ UNCHANGED agentVars /\ now' = now + 1
        /\ \A a \in Agent : conn[a].open => conn[a].deadline = 0 \/ now < conn[a].deadline
    BY DEF Inv, Tick, Fixed
  <1>2. ASSUME NEW a \in Agent PROVE ConnOK(a)' /\ MailOK(a)' /\ HookOK(a)'
    <2>1. MailOK(a)' /\ HookOK(a)'
      BY <1>1, MailStays, HookStays DEF Inv, agentVars
    <2>2. who[a].expires \in Nat /\ now \in Nat
      BY EventsAssumption DEF Inv, IsIdentity
    <2>3. ConnOK(a)
      BY DEF Inv
    <2>4. conn[a].open /\ Access = "api" => who[a].expires = 0 \/ now' <= who[a].expires
      BY <1>1, <2>2, <2>3 DEF ConnOK
    <2>5. ConnOK(a)'
      BY <1>1, <2>3, <2>4, AccessFixed DEF ConnOK, Fixed, agentVars, Authorize, Scope
    <2> QED
      BY <2>1, <2>5
  <1> QED
    BY <1>1, <1>2 DEF Inv, Fixed, agentVars

(* A step that opens a's connection, while the others' stay.  *)
LEMMA OpenStep ==
    ASSUME Inv, Fixed, now' = now, NEW a \in Agent, NEW u \in Uri, Admits(who[a]),
           conn' = [conn EXCEPT ![a] = Connection(Grant(who[a]), u)],
           watched' = [watched EXCEPT ![a] = u],
           NEW x \in Agent
    PROVE  ConnOK(x)'
  <1>1. CASE x # a
    <2>1. conn'[x] = conn[x] /\ watched'[x] = watched[x]
      BY <1>1 DEF Inv
    <2> QED
      BY <2>1, ConnStays DEF Inv
  <1>2. CASE x = a
    <2>1. PICK c : c = Connection(Grant(who[a]), u)
      OBVIOUS
    <2>2. conn'[a] = c /\ watched'[a] = u
      BY <2>1 DEF Inv
    <2>3. PICK i \in Identity : i = who[a]
      BY DEF Inv
    <2>4. /\ c.subscribed /\ Access # "open" => i.org \in {<<>>, OrgOf(u)}
          /\ c.publish /\ Access # "open" => i.broker
          /\ Access = "api" => c.deadline = i.expires
          /\ Access = "api" => (i.expires = 0 \/ now <= i.expires)
          /\ Access = "api" /\ Authorize(i, u) => c.subscribed
      BY <2>1, <2>3, Connects DEF Inv
    <2> QED
      BY <1>2, <2>2, <2>3, <2>4, AccessFixed DEF ConnOK, Fixed, Authorize, Scope
  <1> QED
    BY <1>1, <1>2

(* Nothing reached an agent that watches nothing, so all that reaches it   *)
(* once it watches a prompt is of that prompt.                             *)
LEMMA WatchStep ==
    ASSUME Inv, NEW a \in Agent, NEW u \in Uri, Watch(a, u)
    PROVE  Inv'
  <1>1. /\ Fixed /\ now' = now /\ inbox' = inbox /\ hook' = hook
        /\ watched[a] = NotWatching /\ Admits(who[a])
        /\ watched' = [watched EXCEPT ![a] = u]
        /\ conn' = [conn EXCEPT ![a] = Connection(Grant(who[a]), u)]
    BY DEF Inv, Watch, Fixed
  <1>2. ASSUME NEW e \in Event PROVE ~EventOK(a, e)
    BY <1>1, EventsAssumption DEF EventOK, Event
  <1>3. ASSUME NEW x \in Agent PROVE ConnOK(x)' /\ MailOK(x)' /\ HookOK(x)'
    <2>1. ConnOK(x)'
      BY <1>1, OpenStep
    <2>2. CASE x # a
      <3>1. watched'[x] = watched[x] /\ inbox'[x] = inbox[x] /\ hook'[x] = hook[x]
        BY <1>1, <2>2 DEF Inv
      <3> QED
        BY <1>1, <2>1, <3>1, MailStays, HookStays DEF Inv
    <2>3. CASE x = a
      <3>1. hook[a] = NoHook
        BY <1>2 DEF Inv, HookOK
      <3>2. inbox[a] \in Seq(Event) /\ \A k \in 1 .. Len(inbox[a]) : EventOK(a, inbox[a][k])
        BY DEF Inv, MailOK
      <3>3. \A k \in 1 .. Len(inbox[a]) : inbox[a][k] \in Event
        BY <3>2
      <3>4. 1 .. Len(inbox[a]) = {}
        BY <1>2, <3>2, <3>3
      <3>5. MailOK(a)'
        BY <1>1, <3>2, <3>4 DEF MailOK
      <3>6. HookOK(a)'
        BY <1>1, <3>1 DEF HookOK
      <3> QED
        BY <2>1, <2>3, <3>5, <3>6
    <2> QED
      BY <2>2, <2>3
  <1>4. watched' \in [Agent -> Uri \cup {NotWatching}] /\ DOMAIN conn' = Agent
    BY <1>1 DEF Inv
  <1> QED
    BY <1>1, <1>3, <1>4 DEF Inv, Fixed

LEMMA ReconnectStep ==
    ASSUME Inv, NEW a \in Agent, Reconnect(a)
    PROVE  Inv'
  <1>1. PICK u : u = watched[a]
    OBVIOUS
  <1>2. /\ Fixed /\ now' = now /\ inbox' = inbox /\ hook' = hook /\ watched' = watched
        /\ u \in Uri /\ Admits(who[a])
        /\ conn' = [conn EXCEPT ![a] = Connection(Grant(who[a]), u)]
    BY <1>1 DEF Inv, Reconnect, Fixed
  <1>3. watched' = [watched EXCEPT ![a] = u] /\ DOMAIN conn' = Agent
    BY <1>1, <1>2 DEF Inv
  <1>4. ASSUME NEW x \in Agent PROVE ConnOK(x)' /\ MailOK(x)' /\ HookOK(x)'
    <2>1. ConnOK(x)'
      BY <1>2, <1>3, OpenStep
    <2> QED
      BY <1>2, <2>1, MailStays, HookStays DEF Inv
  <1> QED
    BY <1>2, <1>3, <1>4 DEF Inv, Fixed

LEMMA DisconnectStep ==
    ASSUME Inv, NEW a \in Agent, Disconnect(a)
    PROVE  Inv'
  <1>1. /\ Fixed /\ now' = now /\ hook' = hook /\ watched' = watched
        /\ conn' = [conn EXCEPT ![a] = Closed]
        /\ inbox' = inbox \/ inbox' = [inbox EXCEPT ![a] = <<>>]
    BY DEF Inv, Disconnect, Fixed
  <1>2. ASSUME NEW x \in Agent PROVE ConnOK(x)' /\ MailOK(x)' /\ HookOK(x)'
    <2>1. HookOK(x)'
      BY <1>1, HookStays DEF Inv
    <2>2. conn'[x] = conn[x] \/ ~conn'[x].open
      BY <1>1 DEF Inv, Closed
    <2>3. ConnOK(x)'
      <3>1. CASE conn'[x] = conn[x]
        BY <1>1, <3>1, ConnStays DEF Inv
      <3>2. CASE ~conn'[x].open
        BY <3>2 DEF ConnOK
      <3> QED
        BY <2>2, <3>1, <3>2
    <2>4. inbox'[x] = inbox[x] \/ inbox'[x] = <<>>
      BY <1>1 DEF Inv
    <2>5. MailOK(x)'
      BY <1>1, <2>4, MailStays, NoMail DEF Inv
    <2> QED
      BY <2>1, <2>3, <2>5
  <1>3. DOMAIN conn' = Agent /\ DOMAIN inbox' = Agent
    BY <1>1 DEF Inv
  <1> QED
    BY <1>1, <1>2, <1>3 DEF Inv, Fixed

LEMMA ReceiveStep ==
    ASSUME Inv, NEW a \in Agent, Receive(a)
    PROVE  Inv'
  <1>1. PICK h : h = <<Head(inbox[a])>>
    OBVIOUS
  <1>2. /\ Fixed /\ now' = now /\ watched' = watched /\ conn' = conn
        /\ inbox[a] # <<>>
        /\ hook' = [hook EXCEPT ![a] = h] /\ inbox' = [inbox EXCEPT ![a] = Tail(@)]
    BY <1>1 DEF Inv, Receive, Fixed
  <1>3. inbox[a] \in Seq(Event) /\ \A k \in 1 .. Len(inbox[a]) : EventOK(a, inbox[a][k])
    BY DEF Inv, MailOK
  <1>4. /\ Len(inbox[a]) \in Nat /\ Len(inbox[a]) > 0 /\ h[1] = inbox[a][1]
        /\ h[1] \in Event
    BY <1>1, <1>2, <1>3
  <1>5. /\ Tail(inbox[a]) \in Seq(Event) /\ Len(Tail(inbox[a])) = Len(inbox[a]) - 1
        /\ \A k \in 1 .. Len(inbox[a]) - 1 : Tail(inbox[a])[k] = inbox[a][k + 1]
    BY <1>2, <1>3
  <1>6. inbox'[a] = Tail(inbox[a]) /\ hook'[a] = h
    BY <1>2 DEF Inv
  <1>7. MailOK(a)'
    <2>1. ASSUME NEW k \in 1 .. Len(inbox'[a]) PROVE EventOK(a, inbox[a][k])'
      <3>1. k + 1 \in 1 .. Len(inbox[a]) /\ inbox'[a][k] = inbox[a][k + 1]
        BY <1>4, <1>5, <1>6
      <3>2. EventOK(a, inbox[a][k + 1])
        BY <1>3, <3>1
      <3> QED
        BY <1>2, <3>1, <3>2, AccessFixed DEF EventOK, Fixed
    <2> QED
      BY <1>5, <1>6, <2>1 DEF MailOK
  <1>8. HookOK(a)'
    <2>1. EventOK(a, inbox[a][1])
      BY <1>3, <1>4
    <2> QED
      BY <1>2, <1>4, <1>6, <2>1, AccessFixed DEF HookOK, EventOK, Fixed
  <1>9. ASSUME NEW x \in Agent PROVE ConnOK(x)' /\ MailOK(x)' /\ HookOK(x)'
    <2>1. ConnOK(x)'
      BY <1>2, ConnStays DEF Inv
    <2>2. CASE x # a
      <3>1. inbox'[x] = inbox[x] /\ hook'[x] = hook[x]
        BY <1>2, <2>2 DEF Inv
      <3> QED
        BY <1>2, <2>1, <3>1, MailStays, HookStays DEF Inv
    <2> QED
      BY <1>7, <1>8, <2>1, <2>2
  <1>10. DOMAIN hook' = Agent /\ DOMAIN inbox' = Agent
    BY <1>2 DEF Inv
  <1> QED
    BY <1>2, <1>9, <1>10 DEF Inv, Fixed

LEMMA StopStep ==
    ASSUME Inv, NEW a \in Agent, Stop(a)
    PROVE  Inv'
  <1>1. /\ Fixed /\ now' = now
        /\ watched' = [watched EXCEPT ![a] = NotWatching]
        /\ conn' = [conn EXCEPT ![a] = Closed]
        /\ inbox' = [inbox EXCEPT ![a] = <<>>]
        /\ hook' = [hook EXCEPT ![a] = NoHook]
    BY DEF Inv, Stop, Fixed
  <1>2. ASSUME NEW x \in Agent PROVE ConnOK(x)' /\ MailOK(x)' /\ HookOK(x)'
    <2>1. CASE x # a
      <3>1. /\ watched'[x] = watched[x] /\ conn'[x] = conn[x]
            /\ inbox'[x] = inbox[x] /\ hook'[x] = hook[x]
        BY <1>1, <2>1 DEF Inv
      <3> QED
        BY <1>1, <3>1, ConnStays, MailStays, HookStays DEF Inv
    <2>2. CASE x = a
      <3>1. ~conn'[a].open /\ inbox'[a] = <<>> /\ hook'[a] = NoHook
        BY <1>1 DEF Inv, Closed
      <3>2. NoHook' = NoHook
        BY DEF NoHook
      <3> QED
        BY <2>2, <3>1, <3>2, NoMail DEF ConnOK, HookOK
    <2> QED
      BY <2>1, <2>2
  <1>3. /\ watched' \in [Agent -> Uri \cup {NotWatching}]
        /\ DOMAIN conn' = Agent /\ DOMAIN inbox' = Agent /\ DOMAIN hook' = Agent
    BY <1>1 DEF Inv
  <1> QED
    BY <1>1, <1>2, <1>3 DEF Inv, Fixed

-----------------------------------------------------------------------------

LEMMA InitInv == Init => Inv
  <1> SUFFICES ASSUME Init PROVE Inv
    OBVIOUS
  <1>1. /\ config \in Configs /\ who \in [Agent -> Identity] /\ now \in Nat
        /\ stored \subseteq Uri
        /\ watched \in [Agent -> Uri \cup {NotWatching}]
        /\ DOMAIN conn = Agent /\ DOMAIN inbox = Agent /\ DOMAIN hook = Agent
    BY EventsAssumption DEF Init
  <1>2. ASSUME NEW a \in Agent PROVE ConnOK(a) /\ MailOK(a) /\ HookOK(a)
    <2>1. ~conn[a].open /\ inbox[a] = <<>> /\ hook[a] = NoHook
      BY DEF Init, Closed
    <2>2. MailOK(a)
      BY <2>1, EmptySeq DEF MailOK
    <2> QED
      BY <2>1, <2>2 DEF ConnOK, HookOK
  <1> QED
    BY <1>1, <1>2 DEF Inv

LEMMA StepInv == Inv /\ [Next]_vars => Inv'
  <1> SUFFICES ASSUME Inv, [Next]_vars PROVE Inv'
    OBVIOUS
  <1>1. CASE PublishPrompt
    BY <1>1, PublishStep
  <1>2. CASE AgentPublishes
    BY <1>2, AgentPublishesStep
  <1>3. CASE Tick
    BY <1>3, TickStep
  <1>4. ASSUME NEW a \in Agent, NEW u \in Uri, Watch(a, u) PROVE Inv'
    BY <1>4, WatchStep
  <1>5. ASSUME NEW a \in Agent, Reconnect(a) PROVE Inv'
    BY <1>5, ReconnectStep
  <1>6. ASSUME NEW a \in Agent, Disconnect(a) PROVE Inv'
    BY <1>6, DisconnectStep
  <1>7. ASSUME NEW a \in Agent, Receive(a) PROVE Inv'
    BY <1>7, ReceiveStep
  <1>8. ASSUME NEW a \in Agent, Stop(a) PROVE Inv'
    BY <1>8, StopStep
  <1>9. CASE UNCHANGED vars
    <2>1. Fixed /\ now' = now /\ UNCHANGED agentVars
      BY <1>9 DEF Inv, vars, Fixed
    <2>2. \A a \in Agent : ConnOK(a)' /\ MailOK(a)' /\ HookOK(a)'
      BY <2>1, ConnStays, MailStays, HookStays DEF Inv, agentVars
    <2> QED
      BY <2>1, <2>2 DEF Inv, Fixed, agentVars
  <1> QED
    BY <1>1, <1>2, <1>3, <1>4, <1>5, <1>6, <1>7, <1>8, <1>9 DEF Next

LEMMA Invariance == Spec => []Inv
  BY InitInv, StepInv, PTL DEF Spec

(* Every event that reached an agent is as its inbox and hook say.  *)
LEMMA HeardOK ==
    ASSUME Inv, NEW a \in Agent, NEW e \in Heard(a)
    PROVE  EventOK(a, e)
  BY DEF Heard, Inv, MailOK, HookOK

(* pubsub.go 49-52 and 100-108: whatever is sent, and however the server   *)
(* was started with a credential for its broker, an agent hears of prompts *)
(* of its own org alone.                                                   *)
THEOREM OwnOrgOnly == Spec => []HearsOwnOrg
  <1>1. Inv => HearsOwnOrg
    BY HeardOK DEF HearsOwnOrg, EventOK
  <1> QED
    BY Invariance, <1>1, PTL

(* pubsub.go 36-40: watch reports changes of its prompt alone.  *)
THEOREM OwnPromptOnly == Spec => []HearsItsPrompt
  <1>1. Inv => HearsItsPrompt
    BY HeardOK DEF HearsItsPrompt, EventOK
  <1> QED
    BY Invariance, <1>1, PTL

(* pubsub.go 100-103: events come from the server's credential alone.  *)
THEOREM FromPublishersOnly == Spec => []OnlyPublishersAreHeard
  <1>1. Inv => OnlyPublishersAreHeard
    BY HeardOK DEF OnlyPublishersAreHeard, EventOK
  <1> QED
    BY Invariance, <1>1, PTL

(* pubsub.go 92-93: the broker refuses no subscription to an agent that    *)
(* the API would let read the prompt.                                      *)
THEOREM ReadersWatch == Spec => []ReaderMayWatch
  <1>1. Inv => ReaderMayWatch
    BY DEF Inv, ConnOK, ReaderMayWatch
  <1> QED
    BY Invariance, <1>1, PTL

(* pubsub.go 232: no subscription outlives its token.  *)
THEOREM NoneOutlivesToken == Spec => NothingSentAfterExpiry
  <1> DEFINE Grew(a) == Access = "api" /\ Len(inbox'[a]) > Len(inbox[a])
  <1>1. ASSUME Inv, [Next]_vars, NEW a \in Agent, Grew(a)
        PROVE  who[a].expires = 0 \/ now <= who[a].expires
    <2>1. inbox[a] \in Seq(Event) /\ Len(inbox[a]) \in Nat /\ DOMAIN inbox = Agent
      <3>1. MailOK(a) /\ DOMAIN inbox = Agent
        BY <1>1 DEF Inv
      <3> QED
        BY <3>1 DEF MailOK
    <2>2. inbox' # inbox /\ inbox'[a] # inbox[a] /\ inbox'[a] # <<>>
          /\ (inbox[a] # <<>> => inbox'[a] # Tail(inbox[a]))
      BY <1>1, <2>1
    <2>3. \E u \in Uri : Hears(a, u)
      <3>1. ASSUME NEW u, NEW by, Send(u, by), u \in Uri PROVE Hears(a, u)
        BY <2>2, <3>1 DEF Send
      <3>2. CASE PublishPrompt
        BY <2>2, <3>1, <3>2 DEF PublishPrompt
      <3>3. CASE AgentPublishes
        BY <2>2, <3>1, <3>3 DEF AgentPublishes
      <3>4. CASE Tick \/ UNCHANGED vars
        BY <2>2, <3>4 DEF Tick, vars, agentVars
      <3>5. ASSUME NEW x \in Agent, NEW u \in Uri, Watch(x, u) PROVE FALSE
        BY <2>2, <3>5 DEF Watch
      <3>6. ASSUME NEW x \in Agent, Reconnect(x) \/ Disconnect(x) \/ Receive(x) \/ Stop(x)
            PROVE  FALSE
        BY <2>1, <2>2, <3>6 DEF Reconnect, Disconnect, Receive, Stop
      <3> QED
        BY <1>1, <3>2, <3>3, <3>4, <3>5, <3>6 DEF Next
    <2> QED
      BY <1>1, <2>3 DEF Hears, Inv, ConnOK
  <1>2. Inv /\ [Next]_vars => \A a \in Agent :
            Access = "api" /\ Len(inbox'[a]) > Len(inbox[a]) =>
                who[a].expires = 0 \/ now <= who[a].expires
    BY <1>1
  <1> QED
    BY Invariance, <1>2, PTL DEF Spec, NothingSentAfterExpiry

-----------------------------------------------------------------------------
(* Listings.  *)

(* A URI begins with an org and a slash just when it is the org's.  *)
LEMMA OrgPrefix ==
    ASSUME NEW i \in Identity, NEW u \in Uri, i.org = OrgOf(u)
    PROVE  StartsWith(u, Append(i.org, "/"))
  <1>1. i.org \in Seq(STRING) /\ u \in Seq(STRING)
    BY EventsAssumption DEF IsIdentity, IsUri
  <1>2. /\ Len(i.org) = Slash(u) - 1 /\ Slash(u) \in 2 .. Len(u) - 1 /\ u[Slash(u)] = "/"
        /\ \A k \in 1 .. Len(i.org) : i.org[k] = u[k]
    BY OrgIs, SlashIs
  <1>3. /\ Len(Append(i.org, "/")) = Slash(u)
        /\ Append(i.org, "/")[Slash(u)] = "/"
        /\ \A k \in 1 .. Slash(u) - 1 : Append(i.org, "/")[k] = i.org[k]
    BY <1>1, <1>2
  <1>4. ASSUME NEW k \in 1 .. Slash(u) PROVE u[k] = Append(i.org, "/")[k]
    BY <1>2, <1>3
  <1> QED
    BY <1>2, <1>3, <1>4 DEF StartsWith

(* server.go 155-159: an empty prefix lists everything the caller can      *)
(* read, any other just what it can read there.                            *)
THEOREM ExactListings == Spec => []ListingsAreExact
  <1>1. ASSUME Inv, NEW a \in Agent, NEW p \in Prefix
        PROVE  ListPrompts(who[a], p) = {u \in stored : StartsWith(u, p) /\ Authorize(who[a], u)}
    <2>1. PICK i \in Identity : i = who[a]
      BY <1>1 DEF Inv
    <2>2. stored \subseteq Uri
      BY <1>1 DEF Inv
    <2>3. ASSUME NEW u \in Uri
          PROVE  InScope(i, u) <=> Authorize(i, u)
      BY DEF InScope, Authorize
    <2>4. ASSUME NEW u \in Uri, p = <<>>, Scope(i) # <<>>, Authorize(i, u)
          PROVE  StartsWith(u, p) /\ StartsWith(u, Append(Scope(i), "/"))
      <3>1. i.org = OrgOf(u) /\ Scope(i) = i.org
        BY <2>4 DEF Authorize, Scope
      <3>2. Len(u) \in Nat /\ Len(p) = 0
        BY <2>4, SlashIs
      <3>3. StartsWith(u, p)
        BY <3>2 DEF StartsWith
      <3> QED
        BY <3>1, <3>3, OrgPrefix
    <2> QED
      BY <2>1, <2>2, <2>3, <2>4 DEF ListPrompts, Listed
  <1>2. Inv => ListingsAreExact
    BY <1>1 DEF ListingsAreExact
  <1> QED
    BY Invariance, <1>2, PTL

-----------------------------------------------------------------------------
(* Changes and time are bounded, and the server is started one way.  *)
FrameInv == config \in Config /\ now \in 0 .. MaxTime /\ sent \in 0 .. MaxEvents

LEMMA FrameStep ==
    ASSUME FrameInv, [Next]_vars
    PROVE  FrameInv'
  <1>1. MaxTime \in Nat /\ MaxEvents \in Nat
    BY EventsAssumption
  <1> QED
    BY <1>1 DEF FrameInv, Next, PublishPrompt, AgentPublishes, Tick, Watch, Reconnect,
                Disconnect, Receive, Stop, vars

LEMMA InitFrame == Init => FrameInv
  BY EventsAssumption DEF Init, FrameInv

(* Connections and events are well formed, and only an agent that watches  *)
(* is connected (pubsub.go 286-290, main.go 677-682).                      *)
THEOREM TypeCorrect == Spec => []TypeOK
  <1>1. Inv /\ FrameInv => TypeOK
    BY EventsAssumption DEF Inv, ConnOK, MailOK, HookOK, FrameInv, TypeOK
  <1> QED
    BY Invariance, InitFrame, FrameStep, <1>1, PTL DEF Spec
=============================================================================
