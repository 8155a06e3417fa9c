--------------------------- MODULE AgentPresence ---------------------------
(***************************************************************************)
(* Which bots are alive: heartbeats and live events written with an        *)
(* agent's key, the health answered from them, and the pages that poll:    *)
(* the status pill, the list of a category, and the page of one agent.     *)
(*                                                                         *)
(* Time is a clock of coarse ticks.  A write stamps its time before it     *)
(* waits for the database, and a page puts what it is answered on screen   *)
(* whenever the answer arrives.                                            *)
(***************************************************************************)
EXTENDS Naturals, FiniteSets

CONSTANTS Beings,               \* agents
          Themes,               \* categories
          OfTheme,              \* which agents a category has, as the roster answers it
          NoBeing,
          Beats,                \* POST requests to presence and live-events, one write each
          FreshFor, OnlineFor,  \* HEARTBEAT_FRESH_MS and ONLINE_THRESHOLD_MS, in ticks
          MaxClock,
          MaxPresenceTroubles   \* failed writes and reads

ASSUME PresenceAssumption ==
    /\ NoBeing \notin Beings
    /\ OfTheme \in [Themes -> SUBSET Beings]
    /\ FreshFor \in Nat \ {0} /\ OnlineFor \in Nat \ {0} /\ MaxClock \in Nat

VARIABLES
    clock,
    presence,      \* agent_presence: status and last_heartbeat_at
    told,          \* history: who told what of whom, and when
    liveEvents,    \* history of agent_live_events: which agents have one, of which type
    beat,          \* writes under way
    pill,          \* BotStatusPill: whose, what it shows, whose answers are awaited
    strip,         \* useA2AAgents: category, roster, presence rows, what it shows
    page,          \* agent/[id]: whose, what it shows, loads under way
    presenceTroubles

serverVars   == <<clock, presence, told, liveEvents, beat>>
presenceVars == <<serverVars, pill, strip, page, presenceTroubles>>

PresenceStates == {"online", "idle", "offline", "error"}
NoPresence == [status |-> "none", at |-> 0]
NoBeat     == [stage |-> "idle"]
BeatDone   == [stage |-> "done"]
NoHealth   == [of |-> NoBeing, status |-> "", at |-> 0]

PresenceInit ==
    /\ clock = 0
    /\ presence = [a \in Beings |-> NoPresence] /\ told = {}
    /\ liveEvents = {}
    /\ beat = [b \in Beats |-> NoBeat]
    /\ \E a \in Beings : pill = [of |-> a, health |-> NoHealth, flights |-> {a}]
    /\ \E t \in Themes :
          strip = [theme |-> t, roster |-> {}, rows |-> {}, shown |-> {}, flights |-> {}]
    /\ \E a \in Beings : page = [of |-> a, loading |-> TRUE, shown |-> NoBeing, error |-> FALSE,
                                 loads |-> {<<a, TRUE>>}]
    /\ presenceTroubles = 0

PresenceTrouble ==
    presenceTroubles < MaxPresenceTroubles /\ presenceTroubles' = presenceTroubles + 1

Tick ==
    /\ clock < MaxClock /\ clock' = clock + 1
    /\ UNCHANGED <<presence, told, liveEvents, beat, pill, strip, page, presenceTroubles>>

------------------------------------------------------------------------------
\* Mutant: any agent's key writes for any agent.
AnyKeyFits(key, of) == key \in Beings /\ of \in Beings

\* The server.  A write is let in when the key's agent is the one it writes for;
\* an event also with the operator's token (no agent's key).
KeyFits(key, of) == key = of

Telling(key, of, status) == [by |-> key, of |-> of, status |-> status, at |-> clock]

Sent(b, stage, said) ==
    /\ beat[b].stage = "idle" /\ beat' = [beat EXCEPT ![b] = [stage |-> stage, said |-> said]]

\* POST /api/a2a/presence: the status as given; the time is taken now.
HeartbeatSent(b, key, of, status) ==
    /\ KeyFits(key, of) /\ Sent(b, "presence", Telling(key, of, status))
    /\ told' = told \cup {Telling(key, of, status)}
    /\ UNCHANGED <<clock, presence, liveEvents, pill, strip, page, presenceTroubles>>

\* POST /api/a2a/live-events: the event is inserted first.
EventSent(b, key, of, type) ==
    /\ key = NoBeing \/ KeyFits(key, of)
    /\ Sent(b, "event", Telling(key, of, type))
    /\ UNCHANGED <<clock, presence, told, liveEvents, pill, strip, page, presenceTroubles>>

\* recordAgentLiveEvent: an error event says error, any other says online; the
\* presence is stamped when its turn comes.
EventInserted(b) ==
    LET e    == beat[b].said
        says == Telling(e.by, e.of, IF e.status = "error" THEN "error" ELSE "online") IN
    /\ beat[b].stage = "event"
    /\ \/ /\ beat' = [beat EXCEPT ![b] = [stage |-> "presence", said |-> says]]
          /\ liveEvents' = liveEvents \cup {<<e.of, e.status>>}
          /\ told' = told \cup {says} /\ UNCHANGED presenceTroubles
       \/ PresenceTrouble /\ beat' = [beat EXCEPT ![b] = BeatDone] /\ UNCHANGED <<liveEvents, told>>
    /\ UNCHANGED <<clock, presence, pill, strip, page>>

\* upsertAgentPresence: the row is replaced, by an older time too.
PresenceUpserted(b) ==
    /\ beat[b].stage = "presence"
    /\ \/ /\ LET said == beat[b].said IN
             presence' = [presence EXCEPT ![said.of] = [status |-> said.status, at |-> said.at]]
          /\ UNCHANGED presenceTroubles
       \/ PresenceTrouble /\ UNCHANGED presence
    /\ beat' = [beat EXCEPT ![b] = BeatDone]
    /\ UNCHANGED <<clock, told, liveEvents, pill, strip, page>>

ServerNext ==
    \/ Tick
    \/ \E b \in Beats, key, of \in Beings, status \in PresenceStates :
          HeartbeatSent(b, key, of, status)
    \/ \E b \in Beats, key \in Beings \cup {NoBeing}, of \in Beings, type \in {"heartbeat", "error"} :
          EventSent(b, key, of, type)
    \/ \E b \in Beats : EventInserted(b) \/ PresenceUpserted(b)

\* Mutant: the stored status decides, however old.
StoredStatus(p) == IF p.status = "online" THEN "online" ELSE "offline"

\* GET bot-health: how old the last heartbeat is decides, whatever its status;
\* a read that fails is answered "unknown".
DerivedStatus(p) == IF p # NoPresence /\ clock - p.at < OnlineFor THEN "online" ELSE "offline"

HealthOf(a) == [of |-> a, status |-> DerivedStatus(presence[a]), at |-> clock]
Unknown(a)  == [of |-> a, status |-> "unknown", at |-> clock]

------------------------------------------------------------------------------
\* The pill asks when it is mounted, when its agent changes, and every 45 s; a
\* request that fails shows "unknown" only where nothing was shown.
PillPolls ==
    /\ pill' = [pill EXCEPT !.flights = @ \cup {pill.of}]
    /\ UNCHANGED <<serverVars, strip, page, presenceTroubles>>

PillMoves(a) ==
    /\ a # pill.of /\ pill' = [pill EXCEPT !.of = a, !.flights = @ \cup {a}]
    /\ UNCHANGED <<serverVars, strip, page, presenceTroubles>>

PillAnswered(a) ==
    /\ a \in pill.flights
    /\ \/ pill' = [pill EXCEPT !.flights = @ \ {a}, !.health = HealthOf(a)] /\ UNCHANGED presenceTroubles
       \/ pill' = [pill EXCEPT !.flights = @ \ {a}, !.health = Unknown(a)] /\ PresenceTrouble
       \/ /\ pill' = [pill EXCEPT !.flights = @ \ {a},
                                  !.health = IF @ = NoHealth THEN Unknown(pill.of) ELSE @]
          /\ PresenceTrouble
    /\ UNCHANGED <<serverVars, strip, page>>

PillNext == PillPolls \/ \E a \in Beings : PillMoves(a) \/ PillAnswered(a)

------------------------------------------------------------------------------
\* The list of a category asks for its roster and for the presence of the
\* agents in it, each poll by its own timer; answers are of the category asked.
PresenceRows(t) == {[of |-> a, row |-> presence[a]] : a \in OfTheme[t]}

\* Mutant: a recent word is enough, whatever it said.
RecentRow(p) == p # NoPresence /\ clock - p.at < FreshFor

\* isOnline, when the memo is made: an agent is active while its last word was
\* "online" and is fresh.
FreshRow(p) == p.status = "online" /\ clock - p.at < FreshFor

ActiveOf(roster, rows) == {a \in roster : \E x \in rows : x.of = a /\ FreshRow(x.row)}

Memo(s) == [s EXCEPT !.shown = {[of |-> a, at |-> clock] : a \in ActiveOf(s.roster, s.rows)}]

StripPolls(what) ==
    /\ strip' = [strip EXCEPT !.flights = @ \cup {<<what, strip.theme>>}]
    /\ UNCHANGED <<serverVars, pill, page, presenceTroubles>>

StripMoves(t) ==
    /\ t # strip.theme
    /\ strip' = [strip EXCEPT !.theme = t, !.flights = @ \cup {<<"roster", t>>, <<"live", t>>}]
    /\ UNCHANGED <<serverVars, pill, page, presenceTroubles>>

\* A poll that fails leaves what is on screen.
StripAnswered(what, t) ==
    /\ <<what, t>> \in strip.flights
    /\ LET landed == [strip EXCEPT !.flights = @ \ {<<what, t>>}] IN
       \/ /\ strip' = Memo(IF what = "roster" THEN [landed EXCEPT !.roster = OfTheme[t]]
                           ELSE [landed EXCEPT !.rows = PresenceRows(t)])
          /\ UNCHANGED presenceTroubles
       \/ strip' = landed /\ PresenceTrouble
    /\ UNCHANGED <<serverVars, pill, page>>

StripNext ==
    \/ \E what \in {"roster", "live"} : StripPolls(what)
    \/ \E t \in Themes : StripMoves(t)
    \/ \E what \in {"roster", "live"}, t \in Themes : StripAnswered(what, t)

------------------------------------------------------------------------------
\* The page of one agent loads it when its id changes, and cancels the loads
\* before; the dashboard row and the reputation may be missing.  A load is an
\* agent and whether it is the one still wanted.
PageMoves(a) ==
    /\ a # page.of
    /\ page' = [page EXCEPT !.of = a, !.loading = TRUE, !.error = FALSE,
                            !.loads = {<<l[1], FALSE>> : l \in @} \cup {<<a, TRUE>>}]
    /\ UNCHANGED <<serverVars, pill, strip, presenceTroubles>>

\* Mutant: an answer is shown though its load was cancelled.
DisplayedLate(p, wanted, a) == [p EXCEPT !.shown = a, !.loading = FALSE]

Displayed(p, wanted, a) == IF wanted THEN [p EXCEPT !.shown = a, !.loading = FALSE] ELSE p
Emptied(p, wanted) ==
    IF wanted THEN [p EXCEPT !.shown = NoBeing, !.error = TRUE, !.loading = FALSE] ELSE p

PageLoaded(a, wanted) ==
    /\ <<a, wanted>> \in page.loads
    /\ LET landed == [page EXCEPT !.loads = @ \ {<<a, wanted>>}] IN
       \/ page' = Displayed(landed, wanted, a) /\ UNCHANGED presenceTroubles
       \/ page' = Emptied(landed, wanted) /\ PresenceTrouble
    /\ UNCHANGED <<serverVars, pill, strip>>

PageNext == \E a \in Beings : PageMoves(a) \/ \E wanted \in BOOLEAN : PageLoaded(a, wanted)

PresenceNext == ServerNext \/ PillNext \/ StripNext \/ PageNext

------------------------------------------------------------------------------
PresenceTypeOK ==
    /\ clock \in 0 .. MaxClock
    /\ \A a \in Beings :
          presence[a] = NoPresence \/ presence[a] \in [status : PresenceStates, at : 0 .. clock]
    /\ liveEvents \subseteq Beings \X {"heartbeat", "error"}
    /\ pill.of \in Beings /\ pill.flights \subseteq Beings
    /\ strip.theme \in Themes /\ strip.roster \subseteq Beings
    /\ page.of \in Beings /\ page.loads \subseteq Beings \X BOOLEAN

HeardOf(a) == {w \in told : w.of = a /\ w.by \in {a, NoBeing}}

(***************************************************************************)
(* What the table says of an agent its own key, or the operator, has said  *)
(* of it: no write of another agent's key, and no event of another agent,  *)
(* shows in its row (presence/route.ts:108-111,                            *)
(* live-events/route.ts:85-88, live-events.ts:90-171).                     *)
(***************************************************************************)
PresenceIsItsOwn ==
    \A a \in Beings : presence[a] # NoPresence =>
        \E w \in HeardOf(a) : w.status = presence[a].status /\ w.at = presence[a].at

(***************************************************************************)
(* A pill that says online says it of an agent that was heard of not       *)
(* longer than the threshold before the answer; a list shows as active     *)
(* only agents that had said, freshly, that they were online               *)
(* (bot-health/route.ts:9-20, useA2AAgents.ts:158-162).                    *)
(***************************************************************************)
AliveWasHeard ==
    /\ pill.health.status = "online" =>
         \E w \in HeardOf(pill.health.of) : pill.health.at - w.at < OnlineFor
    /\ \A x \in strip.shown :
         \E w \in HeardOf(x.of) : w.status = "online" /\ x.at - w.at < FreshFor

(***************************************************************************)
(* The page of an agent, once loaded, shows that agent, though the answers *)
(* for agents visited before arrive in any order                           *)
(* (agent/[id]/page.tsx:383-478).                                          *)
(***************************************************************************)
PageShowsItsAgent ==
    ~page.loading => page.shown = IF page.error THEN NoBeing ELSE page.of
=============================================================================
