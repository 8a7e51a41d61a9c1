-------------------------- MODULE WorkspaceSnapshot --------------------------
(***************************************************************************)
(* The desktop's copy of an organization's projects and workspaces         *)
(* (apps/desktop renderer): snapshot loads, the local create, delete and   *)
(* close commands that change the stores beside them, the session's        *)
(* organizations, and the invalidation events that schedule a load.        *)
(*                                                                         *)
(* The renderer is single-threaded: an action is what runs between two     *)
(* awaits, and a request has a step of its own at the backend. A project   *)
(* has one workspace, which carries the project's name, and no project     *)
(* filter is saved, so every project is displayed. Which local folders the *)
(* store lists is abstracted away: a folder is a workspace of no project   *)
(* that may be the active one.                                             *)
(***************************************************************************)
EXTENDS Integers, FiniteSets

CONSTANTS
    Orgs,
    FirstOrg,     \* the organization selected at start
    Projects,
    Present,      \* the projects FirstOrg has at start
    MaxCommands,  \* bound on the commands the user gives
    MaxLoads,     \* bound on loads under way together
    MaxTimers     \* bound on refresh timers under way together

ASSUME OrgsAssumption == FirstOrg \in Orgs /\ Present \subseteq Projects
ASSUME BoundsAssumption == MaxCommands \in Nat /\ MaxLoads \in Nat \ {0} /\ MaxTimers \in Nat \ {0}

None   == "none"
Folder == "folder"    \* a local folder, LOCAL_FOLDER_PROJECT_ID
Loads  == 1..MaxLoads

ASSUME NoneAssumption == None \notin Orgs \cup Projects /\ Folder \notin Projects

VARIABLES
    selectedOrg,   \* sessionStore.selectedOrganizationId, or None
    organizations, \* sessionStore.organizations
    home,          \* the organization a project was created in, or None
    backend,       \* the projects and workspaces the backend has
    shown,         \* projects[p]: records of p in the project store; workspaces
    active,        \* activeWorkspaceId: a project's, Folder or None
    loads,         \* the loads under way
    creates, deletes, closes,   \* the commands, by project
    events,        \* invalidations on their way to the renderer
    refresh,       \* the refresh timers and the load they started
    commands       \* commands given so far

storeVars   == <<shown, active>>
commandVars == <<creates, deletes, closes>>
vars == <<selectedOrg, organizations, home, backend, storeVars, loads, commandVars, events, refresh, commands>>

NoSnapshot == [projects |-> {}, workspaces |-> {}]
NoLoad     == [pc |-> "idle", org |-> None, folder |-> FALSE, known |-> {}, snapshot |-> NoSnapshot]
Ended      == [NoLoad EXCEPT !.pc = "ended"]
NoCommand  == [pc |-> "idle", current |-> FALSE, org |-> None]

Init ==
    /\ selectedOrg = FirstOrg
    /\ organizations \in {os \in SUBSET Orgs : FirstOrg \in os}
    /\ home = [p \in Projects |-> IF p \in Present THEN FirstOrg ELSE None]
    /\ backend = [projects |-> Present, workspaces |-> Present]
    /\ shown = [projects |-> [p \in Projects |-> 0], workspaces |-> {}]
    /\ active = None
    /\ loads = [l \in Loads |-> NoLoad]
    /\ creates = [p \in Projects |-> NoCommand]
    /\ deletes = [p \in Projects |-> NoCommand]
    /\ closes = [p \in Projects |-> "idle"]
    /\ events = {}
    /\ refresh = [timers |-> 0, timerSet |-> FALSE, load |-> 0, again |-> FALSE, owed |-> FALSE]
    /\ commands = 0

Shown == {p \in Projects : shown.projects[p] > 0}

\* isCurrentRequest of the loads under way answers false from now on: whatever
\* its stage, such a load changes nothing more and ends at its next check.
Overtaken == [l \in Loads |-> IF loads[l].pc = "idle" THEN NoLoad ELSE Ended]

\* A command under way sees that the scope it started in has changed.
OutOfScope(running) == [p \in Projects |-> [running[p] EXCEPT !.current = FALSE]]

\* activeCount of the project mutation fence. updateProjectConfig holds the fence
\* too; it only skips more loads and is left out.
Mutating == \E p \in Projects : deletes[p].pc # "idle"

---------------------------------------------------------------------------
(* loadWorkspaceSnapshot. *)

\* selectedOrganization of a load: the session's, or the first of its list. An
\* empty list is asked for anew, and the user may be in some organization by now.
selectedOrganization ==
    IF organizations = {} THEN Orgs \cup {None}
    ELSE IF selectedOrg \in organizations THEN {selectedOrg} ELSE organizations

\* A load supersedes the ones before it; one that starts during a project
\* mutation is skipped at its first check.
Begin(l) ==
    /\ loads[l].pc = "idle"
    /\ \A k \in Loads : k < l => loads[k].pc # "idle"
    /\ \E o \in selectedOrganization :
          loads' = [Overtaken EXCEPT
                       ![l] = IF Mutating THEN Ended
                              ELSE [pc |-> "filter", org |-> o, folder |-> active = Folder,
                                    known |-> Shown, snapshot |-> NoSnapshot]]

\* A page that mounts, a reconnect, a completed create, a state change.
load(l) ==
    /\ Begin(l)
    /\ UNCHANGED <<selectedOrg, organizations, home, backend, storeVars, commandVars, events, refresh>>

\* There is no organization: the workspaces are emptied, and neither the projects
\* nor the selection are touched.
noOrganization(l) ==
    /\ loads[l].pc = "filter" /\ loads[l].org = None
    /\ shown' = [shown EXCEPT !.workspaces = {}]
    /\ loads' = [loads EXCEPT ![l] = [NoLoad EXCEPT !.pc = "rest", !.folder = loads[l].folder]]
    /\ UNCHANGED <<selectedOrg, organizations, home, backend, active, commandVars, events, refresh>>

\* hydrateProjectFilter returned.
filterHydrated(l) ==
    /\ loads[l].pc = "filter" /\ loads[l].org # None
    /\ loads' = [loads EXCEPT ![l].pc = "projects"]
    /\ UNCHANGED <<selectedOrg, organizations, home, backend, storeVars, commandVars, events, refresh>>

\* The backend answers listProjectsByOrg; the answer is on its way.
projectsListed(l) ==
    /\ loads[l].pc = "projects"
    /\ LET listed == {p \in backend.projects : home[p] = loads[l].org}
       IN loads' = [loads EXCEPT ![l].pc = "listed",
                                 ![l].snapshot = [projects |-> listed,
                                                  workspaces |-> backend.workspaces \cap listed]]
    /\ UNCHANGED <<selectedOrg, organizations, home, backend, storeVars, commandVars, events, refresh>>

\* (mutant: what was created meanwhile is not looked for)
omitsAddedNever(l) == FALSE

\* hasSnapshotOmittedProjectAddedDuringRequest
omitsAdded(l) == ~(Shown \subseteq loads[l].known \cup loads[l].snapshot.projects)

\* (mutant: the first workspace is selected, whatever was active)
resolveHydratedSelectionFirst(workspaces) == workspaces \cup {None}

\* resolveHydratedSelection: the active workspace if it is still there; else the
\* one of the active or the first project (any, activeProjectId is abstracted
\* away), or none when that project has no workspace.
resolveHydratedSelection(workspaces) ==
    IF active \in workspaces THEN {active} ELSE workspaces \cup {None}

snapshotArrives(l) ==
    /\ loads[l].pc = "listed"
    /\ ~omitsAdded(l)
    /\ LET snapshot == loads[l].snapshot
       IN /\ shown' = [projects |-> [p \in Projects |-> IF p \in snapshot.projects THEN 1 ELSE 0],
                       workspaces |-> snapshot.workspaces]
          /\ active' \in resolveHydratedSelection(snapshot.workspaces)
    /\ loads' = [loads EXCEPT ![l] = [NoLoad EXCEPT !.pc = "rest", !.folder = loads[l].folder]]
    /\ UNCHANGED <<selectedOrg, organizations, home, backend, commandVars, events, refresh>>

snapshotSkipped(l) ==
    /\ loads[l].pc = "listed"
    /\ omitsAdded(l)
    /\ loads' = [loads EXCEPT ![l] = Ended]
    /\ UNCHANGED <<selectedOrg, organizations, home, backend, storeVars, commandVars, events, refresh>>

\* The daemon's folders replace the store's; restoreFolderSelectionIfNeeded selects
\* the folder that was active when the load began, if the daemon still has it.
foldersLoaded(l) ==
    /\ loads[l].pc = "rest"
    /\ active' \in IF loads[l].folder THEN {active, Folder} ELSE {active}
    /\ loads' = [loads EXCEPT ![l] = Ended]
    /\ UNCHANGED <<selectedOrg, organizations, home, backend, shown, commandVars, events, refresh>>

\* A request of the load fails. (Tabs and warmup follow the folders.)
loadEnds(l) ==
    /\ loads[l].pc \in {"filter", "projects", "rest"}
    /\ loads' = [loads EXCEPT ![l] = Ended]
    /\ UNCHANGED <<selectedOrg, organizations, home, backend, storeVars, commandVars, events, refresh>>

\* (mutant: the refresh asked for during the load is forgotten)
settledForgetting(l) ==
    /\ loads[l].pc = "ended"
    /\ loads' = [loads EXCEPT ![l] = NoLoad]
    /\ refresh' = IF refresh.load # l THEN refresh ELSE [refresh EXCEPT !.load = 0, !.again = FALSE]
    /\ UNCHANGED <<selectedOrg, organizations, home, backend, storeVars, commandVars, events>>

\* The finally of a load, and the one of the refresh that waits for it.
settled(l) ==
    /\ loads[l].pc = "ended"
    /\ loads' = [loads EXCEPT ![l] = NoLoad]
    /\ refresh' = IF refresh.load # l THEN refresh
                  ELSE IF ~refresh.again THEN [refresh EXCEPT !.load = 0]
                  ELSE [refresh EXCEPT !.load = 0, !.again = FALSE,
                                       !.timers = @ + 1, !.timerSet = TRUE]
    /\ UNCHANGED <<selectedOrg, organizations, home, backend, storeVars, commandVars, events>>

---------------------------------------------------------------------------
(* Invalidations. *)

scheduleWorkspaceSnapshotRefresh ==
    IF refresh.timerSet THEN [refresh EXCEPT !.again = TRUE, !.owed = TRUE]
    ELSE [refresh EXCEPT !.timers = @ + 1, !.timerSet = TRUE, !.owed = TRUE]

\* workspaceSnapshotChanged: an event names its organization and, when a
\* workspace was closed, the workspace.
snapshotChanged(e) ==
    /\ e \in events /\ refresh.timers + 1 < MaxTimers
    /\ events' = events \ {e}
    /\ refresh' = IF e.org # selectedOrg \/ (e.closed # None /\ e.closed \notin shown.workspaces)
                  THEN refresh ELSE scheduleWorkspaceSnapshotRefresh
    /\ UNCHANGED <<selectedOrg, organizations, home, backend, storeVars, loads, commandVars>>

refreshTimer ==
    /\ refresh.timers > 0
    /\ IF refresh.load # 0
       THEN /\ refresh' = [refresh EXCEPT !.timers = @ - 1, !.timerSet = FALSE, !.again = TRUE]
            /\ UNCHANGED loads
       ELSE \E l \in Loads :
                /\ Begin(l)
                /\ refresh' = [refresh EXCEPT !.timers = @ - 1, !.timerSet = FALSE,
                                              !.load = l, !.owed = FALSE]
    /\ UNCHANGED <<selectedOrg, organizations, home, backend, storeVars, commandVars, events>>

---------------------------------------------------------------------------
(* The commands. *)

Changed(o) == [org |-> o, closed |-> None]
Closed(p)  == [org |-> home[p], closed |-> p]

\* createProject, up to its request.
createProject(p) ==
    /\ selectedOrg # None /\ home[p] = None /\ creates[p].pc = "idle"
    /\ creates' = [creates EXCEPT ![p] = [pc |-> "posted", current |-> TRUE, org |-> selectedOrg]]
    /\ UNCHANGED <<selectedOrg, organizations, home, backend, storeVars, loads, deletes, closes, events, refresh>>

createReachesBackend(p) ==
    /\ creates[p].pc = "posted"
    /\ home' = [home EXCEPT ![p] = creates[p].org]
    /\ backend' = [projects |-> backend.projects \cup {p}, workspaces |-> backend.workspaces \cup {p}]
    /\ events' = events \cup {Changed(creates[p].org)}
    /\ creates' = [creates EXCEPT ![p].pc = "created"]
    /\ UNCHANGED <<selectedOrg, organizations, storeVars, loads, deletes, closes, refresh>>

\* The request failed, or its answer or the filter write finds another scope.
createStops(p) ==
    /\ \/ creates[p].pc = "posted"
       \/ creates[p].pc \in {"created", "filter"} /\ ~creates[p].current
    /\ creates' = [creates EXCEPT ![p] = NoCommand]
    /\ UNCHANGED <<selectedOrg, organizations, home, backend, storeVars, loads, deletes, closes, events, refresh>>

createAnswered(p) ==
    /\ creates[p].pc = "created" /\ creates[p].current
    /\ creates' = [creates EXCEPT ![p].pc = "filter"]
    /\ UNCHANGED <<selectedOrg, organizations, home, backend, storeVars, loads, deletes, closes, events, refresh>>

\* writeProjectFilter returned: the project is pushed, its workspace added once.
createApplied(p) ==
    /\ creates[p].pc = "filter" /\ creates[p].current
    /\ shown' = [projects |-> [shown.projects EXCEPT ![p] = @ + 1],
                 workspaces |-> shown.workspaces \cup {p}]
    /\ creates' = [creates EXCEPT ![p] = NoCommand]
    /\ UNCHANGED <<selectedOrg, organizations, home, backend, active, loads, deletes, closes, events, refresh>>

\* (mutant: the mutation does not fence off the loads under way)
deleteProjectUnfenced(p) ==
    /\ p \in Shown /\ home[p] = selectedOrg /\ deletes[p].pc = "idle"
    /\ deletes' = [deletes EXCEPT ![p] = [pc |-> "posted", current |-> TRUE, org |-> selectedOrg]]
    /\ UNCHANGED <<selectedOrg, organizations, home, backend, storeVars, loads, creates, closes, events, refresh>>

\* deleteProject, up to its request: the mutation invalidates the loads under way.
deleteProject(p) ==
    /\ p \in Shown /\ home[p] = selectedOrg /\ deletes[p].pc = "idle"
    /\ deletes' = [deletes EXCEPT ![p] = [pc |-> "posted", current |-> TRUE, org |-> selectedOrg]]
    /\ loads' = Overtaken
    /\ UNCHANGED <<selectedOrg, organizations, home, backend, storeVars, creates, closes, events, refresh>>

deleteReachesBackend(p) ==
    /\ deletes[p].pc = "posted"
    /\ backend' = [projects |-> backend.projects \ {p}, workspaces |-> backend.workspaces \ {p}]
    /\ events' = events \cup {Changed(home[p])}
    /\ deletes' = [deletes EXCEPT ![p].pc = "deleted"]
    /\ UNCHANGED <<selectedOrg, organizations, home, storeVars, loads, creates, closes, refresh>>

deleteApplied(p) ==
    /\ deletes[p].pc = "deleted" /\ deletes[p].current
    /\ shown' = [projects |-> [shown.projects EXCEPT ![p] = 0],
                 workspaces |-> shown.workspaces \ {p}]
    /\ active' = IF active = p /\ p \in shown.workspaces THEN None ELSE active
    /\ deletes' = [deletes EXCEPT ![p].pc = "tabs"]
    /\ UNCHANGED <<selectedOrg, organizations, home, backend, loads, creates, closes, events, refresh>>

\* The mutation is released: in the end, on an error, and out of scope.
deleteFinishes(p) ==
    /\ \/ deletes[p].pc \in {"posted", "tabs"}
       \/ deletes[p].pc = "deleted" /\ ~deletes[p].current
    /\ deletes' = [deletes EXCEPT ![p] = NoCommand]
    /\ UNCHANGED <<selectedOrg, organizations, home, backend, storeVars, loads, creates, closes, events, refresh>>

\* closeWorkspace removes the workspace at once; one that is adjacent to it in the
\* navigator becomes active, a folder perhaps, or none if there is none.
closeWorkspace(p) ==
    /\ p \in shown.workspaces
    /\ shown' = [shown EXCEPT !.workspaces = @ \ {p}]
    /\ IF active # p THEN UNCHANGED active
       ELSE active' \in (shown.workspaces \ {p}) \cup {Folder, None}
    /\ closes' = [closes EXCEPT ![p] = "posted"]
    /\ UNCHANGED <<selectedOrg, organizations, home, backend, loads, creates, deletes, events, refresh>>

closeReachesBackend(p) ==
    /\ closes[p] = "posted" /\ p \in backend.workspaces
    /\ backend' = [backend EXCEPT !.workspaces = @ \ {p}]
    /\ events' = events \cup {Closed(p)}
    /\ closes' = [closes EXCEPT ![p] = "idle"]
    /\ UNCHANGED <<selectedOrg, organizations, home, storeVars, loads, creates, deletes, refresh>>

closeFails(p) ==
    /\ closes[p] = "posted"
    /\ closes' = [closes EXCEPT ![p] = "idle"]
    /\ UNCHANGED <<selectedOrg, organizations, home, backend, storeVars, loads, creates, deletes, events, refresh>>

\* From the navigator, a folder's import, or an overlay that selects none.
activateWorkspace(w) ==
    /\ w \in shown.workspaces \cup {Folder, None}
    /\ active' = w
    /\ UNCHANGED <<selectedOrg, organizations, home, backend, shown, loads, commandVars, events, refresh>>

\* deleteLocalFolder of the active folder, answered: an adjacent workspace or none.
deleteLocalFolder ==
    /\ active = Folder
    /\ active' \in shown.workspaces \cup {Folder, None}
    /\ UNCHANGED <<selectedOrg, organizations, home, backend, shown, loads, commandVars, events, refresh>>

---------------------------------------------------------------------------
(* The session's organizations. *)

\* (mutant: loads do not watch the selected organization)
ScopeChangesUnwatched ==
    /\ creates' = OutOfScope(creates)
    /\ deletes' = OutOfScope(deletes)
    /\ UNCHANGED <<home, backend, storeVars, loads, closes, events, refresh>>

\* The scope subscriptions of the loads and commands under way see another
\* selected organization.
ScopeChanges ==
    /\ loads' = Overtaken
    /\ creates' = OutOfScope(creates)
    /\ deletes' = OutOfScope(deletes)
    /\ UNCHANGED <<home, backend, storeVars, closes, events, refresh>>

\* setSelectedOrganizationId
selectOrganization(o) ==
    /\ o \in organizations /\ o # selectedOrg
    /\ selectedOrg' = o
    /\ ScopeChanges /\ UNCHANGED organizations

\* The answer to leaving the selected organization: the first of the others is
\* selected, if there is one.
leaveOrganization ==
    /\ selectedOrg # None
    /\ organizations' = organizations \ {selectedOrg}
    /\ selectedOrg' \in IF organizations' = {} THEN {None} ELSE organizations'
    /\ ScopeChanges

\* An organization the user created, or was added to, is listed and selected.
createOrganization(o) ==
    /\ o \notin organizations
    /\ organizations' = organizations \cup {o}
    /\ selectedOrg' = o
    /\ ScopeChanges

---------------------------------------------------------------------------
Given == commands < MaxCommands /\ commands' = commands + 1

System ==
    \/ \E l \in Loads : \/ load(l) \/ noOrganization(l) \/ filterHydrated(l)
                        \/ projectsListed(l) \/ snapshotArrives(l) \/ snapshotSkipped(l)
                        \/ foldersLoaded(l) \/ loadEnds(l) \/ settled(l)
    \/ \E e \in events : snapshotChanged(e)
    \/ refreshTimer
    \/ \E p \in Projects : \/ createReachesBackend(p) \/ createStops(p)
                           \/ createAnswered(p) \/ createApplied(p)
                           \/ deleteReachesBackend(p) \/ deleteApplied(p) \/ deleteFinishes(p)
                           \/ closeReachesBackend(p) \/ closeFails(p)

User ==
    \/ \E p \in Projects : createProject(p) \/ deleteProject(p) \/ closeWorkspace(p)
    \/ \E w \in Projects \cup {Folder, None} : activateWorkspace(w)
    \/ deleteLocalFolder
    \/ \E o \in Orgs : selectOrganization(o) \/ createOrganization(o)
    \/ leaveOrganization

Next == (System /\ UNCHANGED commands) \/ (User /\ Given)

Spec == Init /\ [][Next]_vars

---------------------------------------------------------------------------
CommandRecord(pcs) == [pc : pcs, current : BOOLEAN, org : Orgs \cup {None}]
Snapshots == [projects : SUBSET Projects, workspaces : SUBSET Projects]

\* The stores, loads, commands and events have their types; a project that a
\* refresh loaded before its creation was applied is recorded twice, never more.
TypeOK ==
    /\ organizations \subseteq Orgs
    /\ selectedOrg \in IF organizations = {} THEN {None} ELSE organizations
    /\ home \in [Projects -> Orgs \cup {None}]
    /\ backend \in Snapshots
    /\ shown \in [projects : [Projects -> 0..2], workspaces : SUBSET Projects]
    /\ active \in Projects \cup {Folder, None}
    /\ loads \in [Loads -> [pc : {"idle", "filter", "projects", "listed", "rest", "ended"},
                            org : Orgs \cup {None}, folder : BOOLEAN,
                            known : SUBSET Projects, snapshot : Snapshots]]
    /\ creates \in [Projects -> CommandRecord({"idle", "posted", "created", "filter"})]
    /\ deletes \in [Projects -> CommandRecord({"idle", "posted", "deleted", "tabs"})]
    /\ closes \in [Projects -> {"idle", "posted"}]
    /\ events \subseteq [org : Orgs, closed : Projects \cup {None}]
    /\ commands \in 0..MaxCommands
    /\ refresh \in [timers : 0..MaxTimers, timerSet : BOOLEAN, load : 0..MaxLoads,
                    again : BOOLEAN, owed : BOOLEAN]

\* A project that is gone from the backend and from the store does not come back
\* with a load that was fetched before its deletion; only the creation that is
\* still waiting for its filter write can add it.
DeletedStaysDeleted ==
    [][\A p \in Projects :
          home[p] # None /\ p \notin backend.projects /\ p \notin Shown /\ p \in Shown'
          => creates[p].pc = "filter"]_vars

\* A project the user sees, and the backend has, does not vanish under a load
\* that was fetched before it was created, while its organization is selected.
VisibleStaysVisible ==
    [][\A p \in Projects :
          /\ p \in Shown /\ p \in backend.projects
          /\ home[p] = selectedOrg
          => p \in Shown']_vars

\* A load does not move the user off a workspace of the selected organization
\* whose project is displayed and that the backend has, even if the workspace was
\* created after the load began: the selection moves by a command, or by the load
\* that began on a local folder and returns to it.
SelectionSurvivesLoads ==
    [][\/ active' = active \/ commands' # commands
       \/ active \notin Shown \cap backend.workspaces
       \/ home[active] # selectedOrg
       \/ \E l \in Loads : loads[l].pc = "rest" /\ loads[l].folder /\ active' = Folder]_vars

\* A project appears only while its organization is selected, however the
\* answers of loads and creates fall around an organization switch; only for a
\* session that lists no organization does a load show one that is not selected.
AppearsInItsOrganization ==
    [][\A p \in Projects :
          p \notin Shown /\ p \in Shown' => home[p] = selectedOrg \/ organizations = {}]_vars

\* An invalidation that asked for a refresh still has a timer coming, or the load
\* that is running will be followed by another.
NoLostInvalidation ==
    refresh.owed => refresh.timers > 0 \/ (refresh.load # 0 /\ refresh.again)
=============================================================================
