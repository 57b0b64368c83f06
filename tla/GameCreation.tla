---------------------------- MODULE GameCreation ----------------------------
(***************************************************************************)
(* The creation of games by the service (cmd/server/exchange.go) as        *)
(* directories of the event log's root (internal/eventlog/log.go).         *)
(*                                                                         *)
(* A game is the record of the request that created it: its metadata name  *)
(* the game, the create command and the terms (scenario and mode).  The    *)
(* service's lock lets one request work at a time, but the process or the  *)
(* machine can end within it.  Until the root is synced a machine crash    *)
(* may take a published directory away.                                    *)
(***************************************************************************)
EXTENDS Naturals, FiniteSets

CONSTANTS
    GameIDs, Commands,
    Terms              \* the terms that the catalog offers

Requests == [id : GameIDs, command : Commands, terms : Terms]

VARIABLES
    games,       \* directories the file system shows, complete since their rename
    synced,      \* those that a machine crash leaves
    entries,     \* games the process serves
    publishing,  \* the creation between its rename and the answer, if any
    told         \* the games that clients were told of

vars == <<games, synced, entries, publishing, told>>

CreationInit == games = {} /\ synced = {} /\ entries = {} /\ publishing = {} /\ told = {}

\* checkCreateCommandScope(): reads the metadata of every game on the disk.
InScope(r) == \A g \in games : g.command = r.command => g = r

\* The lock is free for a request that passed the scope check.
Admitted(r) == publishing = {} /\ InScope(r)

\* The game of this name is served already; matchesCreate().
CreateServed(r) ==
    /\ Admitted(r) /\ r \in entries
    /\ told' = told \cup {r}
    /\ UNCHANGED <<games, synced, entries, publishing>>

\* loadLocked(): the barrier is for the root, and with it for every game.
LoadGame(g) ==
    /\ publishing = {} /\ g \in games \ entries
    /\ synced' = games
    /\ UNCHANGED <<games, publishing>>

\* The loaded game is served, whether or not it is the one asked for.
CreateLoaded(r) ==
    \E g \in games :
        /\ Admitted(r) /\ g.id = r.id
        /\ LoadGame(g)
        /\ entries' = entries \cup {g}
        /\ told' = IF g = r THEN told \cup {r} ELSE told

\* A request for the game itself.
Show(g) ==
    \/ /\ publishing = {} /\ g \in entries
       /\ told' = told \cup {g}
       /\ UNCHANGED <<games, synced, entries, publishing>>
    \/ /\ LoadGame(g)
       /\ entries' = entries \cup {g}
       /\ told' = told \cup {g}

\* A load fails behind its barrier (rebuilding, or its recovery pause).
LoadFails(g) == LoadGame(g) /\ UNCHANGED <<entries, told>>

\* createAtWithMode() up to the rename of the staged directory.
Publish(r) ==
    /\ Admitted(r)
    /\ \A g \in games : g.id # r.id
    /\ games' = games \cup {r}
    /\ publishing' = {r}
    /\ UNCHANGED <<synced, entries, told>>

\* The root is synced and the game served.
Created ==
    /\ publishing # {}
    /\ synced' = games
    /\ entries' = entries \cup publishing
    /\ told' = told \cup publishing
    /\ publishing' = {}
    /\ UNCHANGED games

\* The sync, or what follows it, fails: the caller gets an error, and the
\* directory stays.
CreateFails ==
    /\ publishing # {}
    /\ publishing' = {}
    /\ synced' \in {synced, games}
    /\ UNCHANGED <<games, entries, told>>

ProcessEnds ==
    /\ entries' = {} /\ publishing' = {}
    /\ UNCHANGED <<games, synced, told>>

MachineCrash ==
    /\ games' \in SUBSET games /\ synced \subseteq games'
    /\ synced' = games'
    /\ entries' = {} /\ publishing' = {}
    /\ UNCHANGED told

CreationNext ==
    \/ \E r \in Requests : CreateServed(r) \/ CreateLoaded(r) \/ Publish(r)
    \/ \E g \in games : Show(g) \/ LoadFails(g)
    \/ Created \/ CreateFails \/ ProcessEnds \/ MachineCrash

CreationSpec == CreationInit /\ [][CreationNext]_vars

-----------------------------------------------------------------------------
(* Properties *)

\* Of the games on the disk no two have the same name or were created by the
\* same command, whatever failed or crashed in between: a create command that
\* is retried under another name, scenario or mode conflicts.
OneGamePerCommand ==
    \A g, h \in games : g.id = h.id \/ g.command = h.command => g = h

\* A game that a client was told of survives every crash with the terms it was
\* told, and the command that created it never names another game.
ToldGamesStay ==
    /\ told \subseteq synced
    /\ \A t, u \in told : t.id = u.id \/ t.command = u.command => t = u
=============================================================================
