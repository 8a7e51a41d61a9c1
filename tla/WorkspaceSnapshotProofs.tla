----------------------- MODULE WorkspaceSnapshotProofs -----------------------
(***************************************************************************)
(* Proofs about WorkspaceSnapshot, for any organizations and projects, and *)
(* any number of loads, timers and commands.                               *)
(*                                                                         *)
(* The argument is about what a load knows: between its start and its      *)
(* answer no project is deleted and the organization stays, so what it     *)
(* lists is there, and what it knew at its start and does not list is gone.*)
(***************************************************************************)
EXTENDS WorkspaceSnapshot, TLAPS

\* A load that may still change the stores.
Live == {"filter", "projects", "listed"}

\* A load that may still change the stores has seen no mutation and no other organization; what
\* it lists the backend has, with its workspace, and what it knew at its start and the backend has,
\* it lists. Only a session that lists no organization loads one that is not selected.
LoadOK(l) ==
    LET ld == loads[l] IN
    /\ ld.pc \in Live =>
         /\ ~Mutating /\ (ld.org = selectedOrg \/ organizations = {})
         /\ \A p \in ld.known : home[p] # None
    /\ ld.pc \in {"projects", "listed"} => ld.org # None
    /\ ld.pc = "listed" =>
         /\ \A p \in ld.snapshot.projects :
              /\ p \in backend.projects /\ home[p] = ld.org
              /\ p \in backend.workspaces => p \in ld.snapshot.workspaces
         /\ \A p \in ld.known : p \in backend.projects /\ home[p] = ld.org => p \in ld.snapshot.projects

\* A project being created has no home before its request is served, and then the
\* organization of the command; its creation is applied once.
CreateOK(p) ==
    /\ creates[p].pc # "idle" => creates[p].org \in Orgs /\ shown.projects[p] <= 1
    /\ creates[p].pc = "posted" => home[p] = None
    /\ creates[p].pc \in {"created", "filter"} => home[p] = creates[p].org
    /\ creates[p].pc # "idle" /\ creates[p].current => creates[p].org = selectedOrg

\* A project being deleted exists, until the backend has removed it for good.
DeleteOK(p) ==
    /\ deletes[p].pc # "idle" => home[p] # None
    /\ deletes[p].pc \in {"deleted", "tabs"} => p \notin backend.projects

\* What the backend has, and what the store shows, was created; a workspace has its project.
HomeOK(p) ==
    /\ p \in backend.projects \/ shown.projects[p] > 0 => home[p] # None
    /\ p \in backend.workspaces => p \in backend.projects

\* A timer that is set is under way; a refresh that loads has left room for the timer its end may
\* set; and an invalidation is not lost.
RefreshOK ==
    /\ refresh.timerSet => refresh.timers > 0
    /\ refresh.load # 0 => refresh.timers < MaxTimers
    /\ NoLostInvalidation

IInv ==
    /\ TypeOK
    /\ \A l \in Loads : LoadOK(l)
    /\ \A p \in Projects : CreateOK(p) /\ DeleteOK(p) /\ HomeOK(p)
    /\ RefreshOK

---------------------------------------------------------------------------
(* Records and their fields. *)

LoadRecord == [pc : {"idle", "filter", "projects", "listed", "rest", "ended"}, org : Orgs \cup {None},
               folder : BOOLEAN, known : SUBSET Projects, snapshot : Snapshots]

\* The loads that change nothing are well formed.
LEMMA QuietLoads ==
    /\ NoLoad \in LoadRecord /\ Ended \in LoadRecord
    /\ NoLoad.pc = "idle" /\ Ended.pc = "ended"
    /\ \A f \in BOOLEAN : /\ [NoLoad EXCEPT !.pc = "rest", !.folder = f] \in LoadRecord
                          /\ [NoLoad EXCEPT !.pc = "rest", !.folder = f].pc = "rest"
  BY DEF NoLoad, Ended, LoadRecord, NoSnapshot, Snapshots

\* Whatever they were doing, loads that were overtaken change nothing more.
LEMMA OvertakenQuiet ==
    /\ Overtaken \in [Loads -> LoadRecord]
    /\ \A l \in Loads : Overtaken[l].pc \notin Live
  BY QuietLoads DEF Overtaken, Live

\* The types of the variables that the steps write.
LEMMA Types ==
    ASSUME TypeOK
    PROVE  /\ organizations \subseteq Orgs /\ selectedOrg \in Orgs \cup {None}
           /\ organizations = {} <=> selectedOrg = None
           /\ loads \in [Loads -> LoadRecord]
           /\ shown.projects \in [Projects -> 0..2] /\ shown.workspaces \in SUBSET Projects
           /\ backend.projects \in SUBSET Projects /\ backend.workspaces \in SUBSET Projects
           /\ Shown \subseteq Projects
  BY NoneAssumption DEF TypeOK, LoadRecord, Snapshots, Shown

\* Nothing is under way at first.
LEMMA InitOK == Init => IInv
  <1> SUFFICES ASSUME Init PROVE IInv
    OBVIOUS
  <1>1. /\ organizations \subseteq Orgs /\ FirstOrg \in organizations
        /\ selectedOrg \in IF organizations = {} THEN {None} ELSE organizations
        /\ active \in Projects \cup {Folder, None} /\ events \subseteq {}
        /\ commands \in 0..MaxCommands
        /\ home \in [Projects -> Orgs \cup {None}]
    BY OrgsAssumption, BoundsAssumption DEF Init
  <1>2. backend \in Snapshots /\ shown \in [projects : [Projects -> 0..2], workspaces : SUBSET Projects]
    BY OrgsAssumption DEF Init, Snapshots
  <1>3. /\ creates \in [Projects -> CommandRecord({"idle", "posted", "created", "filter"})]
        /\ deletes \in [Projects -> CommandRecord({"idle", "posted", "deleted", "tabs"})]
        /\ closes \in [Projects -> {"idle", "posted"}]
    BY DEF Init, CommandRecord, NoCommand
  <1>4. loads \in [Loads -> LoadRecord]
    BY QuietLoads DEF Init
  <1>5. refresh \in [timers : 0..MaxTimers, timerSet : BOOLEAN, load : 0..MaxLoads,
                     again : BOOLEAN, owed : BOOLEAN]
    BY BoundsAssumption DEF Init
  <1>6. TypeOK
    BY <1>1, <1>2, <1>3, <1>4, <1>5 DEF TypeOK, LoadRecord
  <1>7. \A l \in Loads : LoadOK(l)
    BY QuietLoads DEF Init, LoadOK, Live
  <1>8. ASSUME NEW p \in Projects
        PROVE  CreateOK(p) /\ DeleteOK(p) /\ HomeOK(p)
    <2>1. creates[p].pc = "idle" /\ deletes[p].pc = "idle"
      BY DEF Init, NoCommand
    <2>2. HomeOK(p)
      BY OrgsAssumption, NoneAssumption DEF Init, HomeOK
    <2> QED
      BY <2>1, <2>2 DEF CreateOK, DeleteOK
  <1>9. RefreshOK
    BY DEF Init, RefreshOK, NoLostInvalidation
  <1> QED
    BY <1>6, <1>7, <1>8, <1>9 DEF IInv

---------------------------------------------------------------------------
(* The steps of loads and of refreshes. *)

\* A step that changes only the loads and the refresh.
LEMMA LoadStepKeeps ==
    ASSUME IInv, UNCHANGED <<selectedOrg, organizations, home, backend, storeVars, commandVars, commands>>,
           events' \subseteq events,
           loads' \in [Loads -> LoadRecord], \A l \in Loads : LoadOK(l)',
           refresh' \in [timers : 0..MaxTimers, timerSet : BOOLEAN, load : 0..MaxLoads,
                         again : BOOLEAN, owed : BOOLEAN],
           RefreshOK'
    PROVE  IInv'
  <1>1. /\ UNCHANGED <<selectedOrg, organizations>> /\ home' = home /\ backend' = backend /\ shown' = shown
        /\ active' = active /\ creates' = creates /\ deletes' = deletes /\ closes' = closes
        /\ commands' = commands
    BY DEF storeVars, commandVars
  <1>2. TypeOK'
    BY <1>1 DEF IInv, TypeOK, LoadRecord
  <1>3. \A p \in Projects : (CreateOK(p) /\ DeleteOK(p) /\ HomeOK(p))'
    BY <1>1 DEF IInv, CreateOK, DeleteOK, HomeOK
  <1> QED
    BY <1>2, <1>3 DEF IInv

\* One load moves on; the others stay, or change nothing more.
LEMMA OneLoadMoves ==
    ASSUME IInv, UNCHANGED <<selectedOrg, organizations, home, backend, storeVars, commandVars>>,
           NEW l \in Loads, LoadOK(l)',
           \A k \in Loads : k # l => loads'[k] = loads[k] \/ loads'[k].pc \notin Live
    PROVE  \A k \in Loads : LoadOK(k)'
  <1>1. UNCHANGED <<selectedOrg, organizations>> /\ home' = home /\ backend' = backend /\ deletes' = deletes
    BY DEF commandVars
  <1>2. Mutating' = Mutating
    BY <1>1 DEF Mutating
  <1>3. ASSUME NEW k \in Loads, k # l
        PROVE  LoadOK(k)'
    <2>1. LoadOK(k)
      BY DEF IInv
    <2>2. CASE loads'[k] = loads[k]
      BY <1>1, <1>2, <2>1, <2>2 DEF LoadOK
    <2>3. CASE loads'[k].pc \notin Live
      BY <2>3 DEF LoadOK, Live
    <2> QED
      BY <1>3, <2>2, <2>3
  <1> QED
    BY <1>3

\* A load begins: it knows what is shown, or is skipped during a mutation.
LEMMA BeginMoves ==
    ASSUME IInv, UNCHANGED <<selectedOrg, organizations, home, backend, storeVars, commandVars>>,
           NEW l \in Loads, Begin(l)
    PROVE  loads' \in [Loads -> LoadRecord] /\ \A k \in Loads : LoadOK(k)'
  <1>1. TypeOK
    BY DEF IInv
  <1>2. PICK o \in selectedOrganization :
          loads' = [Overtaken EXCEPT
                      ![l] = IF Mutating THEN Ended
                             ELSE [pc |-> "filter", org |-> o, folder |-> active = Folder,
                                   known |-> Shown, snapshot |-> NoSnapshot]]
    BY DEF Begin
  <1>3. o \in Orgs \cup {None} /\ (o = selectedOrg \/ organizations = {})
    BY <1>1, Types DEF selectedOrganization, TypeOK
  <1> DEFINE new == IF Mutating THEN Ended
                    ELSE [pc |-> "filter", org |-> o, folder |-> active = Folder,
                          known |-> Shown, snapshot |-> NoSnapshot]
  <1>4. new \in LoadRecord
    BY <1>1, <1>3, Types, QuietLoads DEF LoadRecord, NoSnapshot, Snapshots
  <1>5. loads' \in [Loads -> LoadRecord] /\ loads'[l] = new
    BY <1>2, <1>4, OvertakenQuiet
  <1>6. \A k \in Loads : k # l => loads'[k].pc \notin Live
    BY <1>2, OvertakenQuiet
  <1>7. LoadOK(l)'
    <2>1. CASE Mutating
      BY <1>5, <2>1, QuietLoads DEF LoadOK, Live
    <2>2. CASE ~Mutating
      <3>1. loads'[l].pc = "filter" /\ loads'[l].org = o /\ loads'[l].known = Shown
        BY <1>5, <2>2
      <3>2. ~Mutating' /\ UNCHANGED <<selectedOrg, organizations>> /\ home' = home
        BY <2>2 DEF Mutating, commandVars
      <3>3. \A p \in Shown : home[p] # None
        BY DEF IInv, HomeOK, Shown
      <3> QED
        BY <1>3, <3>1, <3>2, <3>3 DEF LoadOK
    <2> QED
      BY <2>1, <2>2
  <1> QED
    BY <1>5, <1>6, <1>7, OneLoadMoves

\* The refresh as it is keeps its type and its facts.
LEMMA RefreshStays ==
    ASSUME IInv, refresh' = refresh
    PROVE  /\ refresh' \in [timers : 0..MaxTimers, timerSet : BOOLEAN, load : 0..MaxLoads,
                            again : BOOLEAN, owed : BOOLEAN]
           /\ RefreshOK'
  BY DEF IInv, TypeOK, RefreshOK, NoLostInvalidation

\* The steps of a load before its answer arrives, and its end.
LEMMA LoadKeeps ==
    ASSUME IInv, NEW l \in Loads, UNCHANGED commands,
           load(l) \/ filterHydrated(l) \/ projectsListed(l) \/ snapshotSkipped(l) \/ loadEnds(l)
    PROVE  IInv'
  <1>1. /\ UNCHANGED <<selectedOrg, organizations, home, backend, storeVars, commandVars>>
        /\ events' = events /\ refresh' = refresh
    BY DEF load, filterHydrated, projectsListed, snapshotSkipped, loadEnds
  <1>2. TypeOK /\ LoadOK(l) /\ loads \in [Loads -> LoadRecord]
    BY Types DEF IInv
  <1>3. SUFFICES loads' \in [Loads -> LoadRecord] /\ \A k \in Loads : LoadOK(k)'
    BY <1>1, RefreshStays, LoadStepKeeps
  <1>4. UNCHANGED <<selectedOrg, organizations>> /\ home' = home /\ backend' = backend /\ Mutating' = Mutating
    BY <1>1 DEF Mutating, commandVars
  <1>5. CASE load(l)
    BY <1>1, <1>5, BeginMoves DEF load
  <1>6. CASE filterHydrated(l)
    <2> DEFINE new == [loads[l] EXCEPT !.pc = "projects"]
    <2>1. loads[l].pc = "filter" /\ loads[l].org # None /\ loads' = [loads EXCEPT ![l] = new]
      BY <1>6 DEF filterHydrated
    <2>2. /\ new \in LoadRecord /\ new.pc = "projects" /\ new.org = loads[l].org
          /\ new.known = loads[l].known
      BY <1>2 DEF LoadRecord
    <2> HIDE DEF new
    <2>3. loads' \in [Loads -> LoadRecord] /\ loads'[l] = new
          /\ \A k \in Loads : k # l => loads'[k] = loads[k]
      BY <1>2, <2>1, <2>2
    <2>4. LoadOK(l)'
      BY <1>2, <1>4, <2>1, <2>2, <2>3 DEF LoadOK, Live
    <2> QED
      BY <1>1, <2>3, <2>4, OneLoadMoves
  <1>7. CASE projectsListed(l)
    <2> DEFINE listed == {p \in backend.projects : home[p] = loads[l].org}
    <2> DEFINE snap == [projects |-> listed, workspaces |-> backend.workspaces \cap listed]
    <2> DEFINE new == [loads[l] EXCEPT !.pc = "listed", !.snapshot = snap]
    <2>1. loads[l].pc = "projects" /\ loads' = [loads EXCEPT ![l] = new]
      BY <1>2, <1>7 DEF projectsListed
    <2>2. snap \in Snapshots /\ snap.projects = listed
      BY <1>2, Types DEF Snapshots
    <2>3. /\ new \in LoadRecord /\ new.pc = "listed" /\ new.org = loads[l].org
          /\ new.known = loads[l].known /\ new.snapshot = snap
      BY <1>2, <2>2 DEF LoadRecord
    <2>4. new.snapshot.projects = listed /\ new.snapshot.workspaces = backend.workspaces \cap listed
      BY <2>2, <2>3
    <2> HIDE DEF new, snap
    <2>5. loads' \in [Loads -> LoadRecord] /\ loads'[l] = new
          /\ \A k \in Loads : k # l => loads'[k] = loads[k]
      BY <1>2, <2>1, <2>3
    <2>6. LoadOK(l)'
      BY <1>2, <1>4, <2>1, <2>3, <2>4, <2>5 DEF LoadOK, Live
    <2> QED
      BY <1>1, <2>5, <2>6, OneLoadMoves
  <1>8. CASE snapshotSkipped(l) \/ loadEnds(l)
    <2>1. loads' = [loads EXCEPT ![l] = Ended]
      BY <1>8 DEF snapshotSkipped, loadEnds
    <2>2. loads' \in [Loads -> LoadRecord] /\ loads'[l].pc = "ended"
          /\ \A k \in Loads : k # l => loads'[k] = loads[k]
      BY <1>2, <2>1, QuietLoads
    <2>3. LoadOK(l)'
      BY <2>2 DEF LoadOK, Live
    <2> QED
      BY <1>1, <2>2, <2>3, OneLoadMoves
  <1> QED
    BY <1>5, <1>6, <1>7, <1>8

\* The refresh, field by field.
LEMMA RefreshFields ==
    ASSUME TypeOK
    PROVE  /\ refresh.timers \in 0..MaxTimers /\ refresh.load \in 0..MaxLoads
           /\ refresh.timerSet \in BOOLEAN /\ refresh.again \in BOOLEAN /\ refresh.owed \in BOOLEAN
           /\ MaxTimers \in Nat \ {0} /\ MaxLoads \in Nat \ {0}
  BY BoundsAssumption DEF TypeOK

RefreshRecord == [timers : 0..MaxTimers, timerSet : BOOLEAN, load : 0..MaxLoads,
                  again : BOOLEAN, owed : BOOLEAN]

\* The end of a load: the refresh that waits for it sets the timer that was asked for meanwhile.
LEMMA settledKeeps ==
    ASSUME IInv, NEW l \in Loads, UNCHANGED commands, settled(l)
    PROVE  IInv'
  <1>1. /\ UNCHANGED <<selectedOrg, organizations, home, backend, storeVars, commandVars>> /\ events' = events
        /\ loads' = [loads EXCEPT ![l] = NoLoad]
    BY DEF settled
  <1>2. TypeOK /\ RefreshOK /\ loads \in [Loads -> LoadRecord] /\ refresh \in RefreshRecord
    BY Types DEF IInv, TypeOK, RefreshRecord
  <1>3. loads' \in [Loads -> LoadRecord] /\ loads'[l].pc = "idle"
          /\ \A k \in Loads : k # l => loads'[k] = loads[k]
    BY <1>1, <1>2, QuietLoads
  <1>4. LoadOK(l)'
    BY <1>3 DEF LoadOK, Live
  <1>5. \A k \in Loads : LoadOK(k)'
    BY <1>1, <1>3, <1>4, OneLoadMoves
  <1>6. refresh' \in RefreshRecord /\ RefreshOK'
    <2>1. CASE refresh.load # l
      BY <1>2, <2>1 DEF settled, RefreshOK, NoLostInvalidation
    <2>2. CASE refresh.load = l /\ ~refresh.again
      <3>1. refresh' = [refresh EXCEPT !.load = 0]
        BY <2>2 DEF settled
      <3>2. refresh' \in RefreshRecord
        BY <1>2, <3>1, BoundsAssumption DEF RefreshRecord
      <3>3. /\ refresh'.load = 0 /\ refresh'.timers = refresh.timers /\ refresh'.timerSet = refresh.timerSet
            /\ refresh'.owed = refresh.owed
        BY <1>2, <3>1 DEF RefreshRecord
      <3> QED
        BY <1>2, <2>2, <3>2, <3>3 DEF RefreshOK, NoLostInvalidation
    <2>3. CASE refresh.load = l /\ refresh.again
      <3>1. refresh' = [refresh EXCEPT !.load = 0, !.again = FALSE, !.timers = @ + 1, !.timerSet = TRUE]
        BY <2>3 DEF settled
      <3>2. refresh.timers < MaxTimers /\ refresh.timers \in 0..MaxTimers
        BY <1>2, <2>3, BoundsAssumption, RefreshFields DEF RefreshOK, Loads
      <3>3. refresh.timers + 1 \in 0..MaxTimers /\ refresh.timers + 1 > 0
        BY <3>2, BoundsAssumption
      <3>4. refresh' \in RefreshRecord
        <4>1. 0 \in 0..MaxLoads /\ FALSE \in BOOLEAN /\ TRUE \in BOOLEAN
          BY BoundsAssumption
        <4> QED
          BY <1>2, <3>1, <3>3, <4>1 DEF RefreshRecord
      <3>5. refresh'.load = 0 /\ refresh'.timers = refresh.timers + 1
        BY <1>2, <3>1 DEF RefreshRecord
      <3> QED
        BY <3>3, <3>4, <3>5 DEF RefreshOK, NoLostInvalidation
    <2> QED
      BY <2>1, <2>2, <2>3
  <1> QED
    BY <1>1, <1>3, <1>5, <1>6, LoadStepKeeps DEF RefreshRecord

\* An invalidation sets the timer, or finds it set.
LEMMA snapshotChangedKeeps ==
    ASSUME IInv, NEW e \in events, UNCHANGED commands, snapshotChanged(e)
    PROVE  IInv'
  <1>1. /\ UNCHANGED <<selectedOrg, organizations, home, backend, storeVars, commandVars>> /\ events' \subseteq events
        /\ loads' = loads /\ refresh.timers + 1 < MaxTimers
        /\ refresh' = refresh \/ refresh' = scheduleWorkspaceSnapshotRefresh
    BY DEF snapshotChanged
  <1>2. TypeOK /\ RefreshOK /\ loads \in [Loads -> LoadRecord] /\ refresh \in RefreshRecord
    BY Types DEF IInv, TypeOK, RefreshRecord
  <1>3. \A k \in Loads : LoadOK(k)'
    <2>1. UNCHANGED <<selectedOrg, organizations>> /\ home' = home /\ backend' = backend /\ Mutating' = Mutating
      BY <1>1 DEF Mutating, commandVars
    <2> QED
      BY <1>1, <2>1 DEF IInv, LoadOK
  <1>4. refresh' \in RefreshRecord /\ RefreshOK'
    <2>1. CASE refresh' = refresh
      BY <1>2, <2>1 DEF RefreshOK, NoLostInvalidation
    <2>2. CASE refresh' = scheduleWorkspaceSnapshotRefresh /\ refresh.timerSet
      <3>1. refresh' = [refresh EXCEPT !.again = TRUE, !.owed = TRUE]
        BY <2>2 DEF scheduleWorkspaceSnapshotRefresh
      <3>2. refresh' \in RefreshRecord
        BY <1>2, <3>1 DEF RefreshRecord
      <3>3. refresh'.load = refresh.load /\ refresh'.timers = refresh.timers
        BY <1>2, <3>1 DEF RefreshRecord
      <3> QED
        BY <1>2, <2>2, <3>2, <3>3 DEF RefreshOK, NoLostInvalidation
    <2>3. CASE refresh' = scheduleWorkspaceSnapshotRefresh /\ ~refresh.timerSet
      <3>1. refresh' = [refresh EXCEPT !.timers = @ + 1, !.timerSet = TRUE, !.owed = TRUE]
        BY <2>3 DEF scheduleWorkspaceSnapshotRefresh
      <3>2. refresh.timers + 1 \in 0..MaxTimers /\ refresh.timers + 1 > 0 /\ refresh.timers + 1 < MaxTimers
        BY <1>1, <1>2, BoundsAssumption, RefreshFields
      <3>3. refresh' \in RefreshRecord
        BY <1>2, <3>1, <3>2 DEF RefreshRecord
      <3>4. refresh'.load = refresh.load /\ refresh'.timers = refresh.timers + 1
        BY <1>2, <3>1 DEF RefreshRecord
      <3> QED
        BY <3>2, <3>3, <3>4 DEF RefreshOK, NoLostInvalidation
    <2> QED
      BY <1>1, <2>1, <2>2, <2>3
  <1> QED
    BY <1>1, <1>2, <1>3, <1>4, LoadStepKeeps DEF RefreshRecord

\* A timer fires: during the refresh's own load it only asks for another one.
LEMMA refreshTimerKeeps ==
    ASSUME IInv, UNCHANGED commands, refreshTimer
    PROVE  IInv'
  <1>1. /\ UNCHANGED <<selectedOrg, organizations, home, backend, storeVars, commandVars>> /\ events' = events
        /\ refresh.timers > 0
    BY DEF refreshTimer
  <1>2. TypeOK /\ RefreshOK /\ loads \in [Loads -> LoadRecord] /\ refresh \in RefreshRecord
    BY Types DEF IInv, TypeOK, RefreshRecord
  <1>3. refresh.timers - 1 \in 0..MaxTimers /\ refresh.timers - 1 < MaxTimers
    BY <1>1, <1>2, BoundsAssumption, RefreshFields
  <1>4. CASE refresh.load # 0
    <2>1. /\ refresh' = [refresh EXCEPT !.timers = @ - 1, !.timerSet = FALSE, !.again = TRUE]
          /\ loads' = loads
      BY <1>4 DEF refreshTimer
    <2>2. refresh' \in RefreshRecord
      BY <1>2, <1>3, <2>1 DEF RefreshRecord
    <2>3. /\ refresh'.load = refresh.load /\ refresh'.timers = refresh.timers - 1
          /\ ~refresh'.timerSet /\ refresh'.again
      BY <1>2, <2>1 DEF RefreshRecord
    <2>4. RefreshOK'
      BY <1>3, <1>4, <2>3 DEF RefreshOK, NoLostInvalidation
    <2>5. \A k \in Loads : LoadOK(k)'
      <3>1. UNCHANGED <<selectedOrg, organizations>> /\ home' = home /\ backend' = backend /\ Mutating' = Mutating
        BY <1>1 DEF Mutating, commandVars
      <3> QED
        BY <2>1, <3>1 DEF IInv, LoadOK
    <2> QED
      BY <1>1, <1>2, <2>1, <2>2, <2>4, <2>5, LoadStepKeeps DEF RefreshRecord
  <1>5. CASE refresh.load = 0
    <2>1. PICK l \in Loads :
            /\ Begin(l)
            /\ refresh' = [refresh EXCEPT !.timers = @ - 1, !.timerSet = FALSE, !.load = l, !.owed = FALSE]
      BY <1>5 DEF refreshTimer
    <2>2. l \in 0..MaxLoads
      BY BoundsAssumption DEF Loads
    <2>3. refresh' \in RefreshRecord
      BY <1>2, <1>3, <2>1, <2>2 DEF RefreshRecord
    <2>4. refresh'.timers = refresh.timers - 1 /\ ~refresh'.timerSet /\ ~refresh'.owed
      BY <1>2, <2>1 DEF RefreshRecord
    <2>5. RefreshOK'
      BY <1>3, <2>4 DEF RefreshOK, NoLostInvalidation
    <2>6. loads' \in [Loads -> LoadRecord] /\ \A k \in Loads : LoadOK(k)'
      BY <1>1, <2>1, BeginMoves
    <2> QED
      BY <1>1, <2>3, <2>5, <2>6, LoadStepKeeps DEF RefreshRecord
  <1> QED
    BY <1>4, <1>5

---------------------------------------------------------------------------
(* The answer of a load, and the commands. *)

\* The answer of a load replaces what is shown.
LEMMA snapshotArrivesKeeps ==
    ASSUME IInv, NEW l \in Loads, UNCHANGED commands, snapshotArrives(l)
    PROVE  IInv'
  <1> DEFINE snap == loads[l].snapshot
  <1>1. /\ UNCHANGED <<selectedOrg, organizations>> /\ home' = home /\ backend' = backend /\ events' = events
        /\ refresh' = refresh /\ creates' = creates /\ deletes' = deletes /\ closes' = closes
        /\ loads[l].pc = "listed"
        /\ loads' = [loads EXCEPT ![l] = [NoLoad EXCEPT !.pc = "rest", !.folder = loads[l].folder]]
        /\ shown' = [projects |-> [p \in Projects |-> IF p \in snap.projects THEN 1 ELSE 0],
                     workspaces |-> snap.workspaces]
        /\ active' \in resolveHydratedSelection(snap.workspaces)
    BY DEF snapshotArrives, commandVars
  <1>2. TypeOK /\ LoadOK(l) /\ loads \in [Loads -> LoadRecord]
    BY Types DEF IInv
  <1>3. snap.projects \in SUBSET Projects /\ snap.workspaces \in SUBSET Projects
    BY <1>2 DEF LoadRecord, Snapshots
  <1> HIDE DEF snap
  <1>4. /\ shown'.projects \in [Projects -> 0..2] /\ shown'.workspaces = snap.workspaces
        /\ \A p \in Projects : shown'.projects[p] <= 1 /\ (shown'.projects[p] > 0 => p \in snap.projects)
    BY <1>1
  <1>5. shown' \in [projects : [Projects -> 0..2], workspaces : SUBSET Projects]
    BY <1>1, <1>3
  <1>6. active' \in Projects \cup {Folder, None}
    BY <1>1, <1>3, <1>4 DEF resolveHydratedSelection
  <1>7. loads' \in [Loads -> LoadRecord] /\ loads'[l].pc = "rest"
          /\ \A k \in Loads : k # l => loads'[k] = loads[k]
    <2>1. loads[l].folder \in BOOLEAN
      BY <1>2 DEF LoadRecord
    <2> QED
      BY <1>1, <1>2, <2>1, QuietLoads
  <1>8. TypeOK'
    BY <1>1, <1>2, <1>5, <1>6, <1>7 DEF TypeOK, LoadRecord
  <1>9. \A k \in Loads : LoadOK(k)'
    <2>1. LoadOK(l)'
      BY <1>7 DEF LoadOK, Live
    <2>2. Mutating' = Mutating
      BY <1>1 DEF Mutating
    <2>3. \A k \in Loads : k # l => LoadOK(k)'
      BY <1>1, <1>7, <2>2 DEF IInv, LoadOK
    <2> QED
      BY <2>1, <2>3
  <1>10. \A p \in snap.projects : home[p] # None
    BY <1>1, <1>2 DEF LoadOK, snap
  <1>11. ASSUME NEW p \in Projects
         PROVE  (CreateOK(p) /\ DeleteOK(p) /\ HomeOK(p))'
    <2>1. CreateOK(p) /\ DeleteOK(p) /\ HomeOK(p)
      BY DEF IInv
    <2>2. CreateOK(p)'
      BY <1>1, <1>4, <2>1 DEF CreateOK
    <2>3. DeleteOK(p)' /\ HomeOK(p)'
      BY <1>1, <1>4, <1>10, <2>1 DEF DeleteOK, HomeOK
    <2> QED
      BY <2>2, <2>3
  <1>12. RefreshOK'
    BY <1>1, RefreshStays
  <1> QED
    BY <1>8, <1>9, <1>11, <1>12 DEF IInv

\* Without an organization the workspaces are emptied; then the folders may be restored. Neither
\* touches the projects.
LEMMA SelectionStepKeeps ==
    ASSUME IInv, NEW l \in Loads, UNCHANGED commands, noOrganization(l) \/ foldersLoaded(l)
    PROVE  IInv'
  <1>1. /\ UNCHANGED <<selectedOrg, organizations>> /\ home' = home /\ backend' = backend
        /\ events' = events /\ refresh' = refresh
        /\ creates' = creates /\ deletes' = deletes /\ closes' = closes
    BY DEF noOrganization, foldersLoaded, commandVars
  <1>2. /\ TypeOK /\ loads \in [Loads -> LoadRecord] /\ loads[l].folder \in BOOLEAN
        /\ shown \in [projects : [Projects -> 0..2], workspaces : SUBSET Projects]
        /\ active \in Projects \cup {Folder, None}
    BY Types DEF IInv, TypeOK, LoadRecord
  <1>3. /\ loads' \in [Loads -> LoadRecord] /\ loads'[l].pc \in {"rest", "ended"}
        /\ \A k \in Loads : k # l => loads'[k] = loads[k]
    <2>1. CASE noOrganization(l)
      BY <1>2, <2>1, QuietLoads DEF noOrganization
    <2>2. CASE foldersLoaded(l)
      BY <1>2, <2>2, QuietLoads DEF foldersLoaded
    <2> QED
      BY <2>1, <2>2
  <1>4. /\ shown' \in [projects : [Projects -> 0..2], workspaces : SUBSET Projects]
        /\ shown'.projects = shown.projects /\ active' \in Projects \cup {Folder, None}
    <2>1. CASE noOrganization(l)
      BY <1>2, <2>1 DEF noOrganization
    <2>2. CASE foldersLoaded(l)
      BY <1>2, <2>2 DEF foldersLoaded
    <2> QED
      BY <2>1, <2>2
  <1>5. TypeOK'
    BY <1>1, <1>2, <1>3, <1>4 DEF TypeOK, LoadRecord
  <1>6. \A k \in Loads : LoadOK(k)'
    <2>1. LoadOK(l)'
      BY <1>3 DEF LoadOK, Live
    <2>2. Mutating' = Mutating
      BY <1>1 DEF Mutating
    <2>3. \A k \in Loads : k # l => LoadOK(k)'
      BY <1>1, <1>3, <2>2 DEF IInv, LoadOK
    <2> QED
      BY <2>1, <2>3
  <1>7. \A p \in Projects : (CreateOK(p) /\ DeleteOK(p) /\ HomeOK(p))'
    BY <1>1, <1>4 DEF IInv, CreateOK, DeleteOK, HomeOK
  <1> QED
    BY <1>1, <1>5, <1>6, <1>7, RefreshStays DEF IInv

\* The loads under way stay in order while no project is deleted, no mutation starts, and only
\* projects that had no home appear.
LEMMA LoadsStay ==
    ASSUME IInv, loads' = loads, UNCHANGED <<selectedOrg, organizations>>, Mutating' => Mutating,
           \A p \in Projects : home[p] # None => home'[p] = home[p],
           ~Mutating => backend.projects \subseteq backend'.projects,
           \A p \in Projects : p \in backend'.projects /\ p \notin backend.projects => home[p] = None,
           \A p \in Projects : p \in backend'.workspaces /\ p \notin backend.workspaces => home[p] = None
    PROVE  \A l \in Loads : LoadOK(l)'
  <1> SUFFICES ASSUME NEW l \in Loads PROVE LoadOK(l)'
    OBVIOUS
  <1>1. LoadOK(l) /\ loads[l] \in LoadRecord
    BY Types DEF IInv
  <1>2. loads[l].known \subseteq Projects /\ loads[l].snapshot.projects \subseteq Projects
    BY <1>1 DEF LoadRecord, Snapshots
  <1>3. CASE loads[l].pc \notin Live
    BY <1>3 DEF LoadOK, Live
  <1>4. CASE loads[l].pc \in Live
    <2>1. /\ ~Mutating /\ (loads[l].org = selectedOrg \/ organizations = {})
          /\ \A p \in loads[l].known : home[p] # None
          /\ loads[l].pc \in {"projects", "listed"} => loads[l].org # None
      BY <1>1, <1>4 DEF LoadOK
    <2>2. \A p \in loads[l].known : home'[p] # None
      BY <1>2, <2>1
    <2>3. ASSUME loads[l].pc = "listed", NEW p \in loads[l].snapshot.projects
          PROVE  /\ p \in backend'.projects /\ home'[p] = loads[l].org
                 /\ p \in backend'.workspaces => p \in loads[l].snapshot.workspaces
      <3>1. /\ p \in backend.projects /\ home[p] = loads[l].org /\ p \in Projects
            /\ p \in backend.workspaces => p \in loads[l].snapshot.workspaces
        BY <1>1, <1>2, <2>3 DEF LoadOK
      <3> QED
        BY <2>1, <2>3, <3>1
    <2>4. ASSUME loads[l].pc = "listed", NEW p \in loads[l].known,
                 p \in backend'.projects, home'[p] = loads[l].org
          PROVE  p \in loads[l].snapshot.projects
      <3>1. home[p] # None /\ p \in Projects
        BY <1>2, <2>1
      <3>2. home[p] = loads[l].org /\ p \in backend.projects
        BY <2>4, <3>1
      <3> QED
        BY <1>1, <2>4, <3>2 DEF LoadOK
    <2> QED
      BY <2>1, <2>2, <2>3, <2>4 DEF LoadOK
  <1> QED
    BY <1>3, <1>4

\* A command, field by field.
LEMMA CommandFields ==
    ASSUME TypeOK, NEW p \in Projects
    PROVE  /\ creates[p] \in CommandRecord({"idle", "posted", "created", "filter"})
           /\ deletes[p] \in CommandRecord({"idle", "posted", "deleted", "tabs"})
           /\ NoCommand \in CommandRecord({"idle", "posted", "created", "filter"})
           /\ NoCommand \in CommandRecord({"idle", "posted", "deleted", "tabs"})
           /\ NoCommand.pc = "idle" /\ home[p] \in Orgs \cup {None}
  BY DEF TypeOK, CommandRecord, NoCommand

CreateRecord == CommandRecord({"idle", "posted", "created", "filter"})
DeleteRecord == CommandRecord({"idle", "posted", "deleted", "tabs"})

\* A step of a create that changes nothing but the command.
LEMMA CreateStepKeeps ==
    ASSUME IInv, commands' \in 0..MaxCommands,
           UNCHANGED <<selectedOrg, organizations, home, backend, storeVars, loads, deletes, closes, events, refresh>>,
           NEW p \in Projects, NEW new \in CreateRecord, creates' = [creates EXCEPT ![p] = new],
           CreateOK(p)'
    PROVE  IInv'
  <1>1. /\ UNCHANGED <<selectedOrg, organizations>> /\ home' = home /\ backend' = backend /\ events' = events
        /\ refresh' = refresh /\ loads' = loads /\ deletes' = deletes /\ closes' = closes
        /\ shown' = shown /\ active' = active
    BY DEF storeVars
  <1>2. TypeOK /\ creates \in [Projects -> CreateRecord]
    BY DEF IInv, TypeOK, CreateRecord
  <1>3. creates' \in [Projects -> CreateRecord] /\ \A q \in Projects : q # p => creates'[q] = creates[q]
    BY <1>2
  <1>4. TypeOK'
    BY <1>1, <1>2, <1>3 DEF TypeOK, CreateRecord
  <1>5. \A q \in Projects : (CreateOK(q) /\ DeleteOK(q) /\ HomeOK(q))'
    BY <1>1, <1>3 DEF IInv, CreateOK, DeleteOK, HomeOK
  <1>6. \A l \in Loads : LoadOK(l)'
    BY <1>1, LoadsStay DEF Mutating
  <1>7. RefreshOK'
    BY <1>1, RefreshStays DEF IInv
  <1> QED
    BY <1>4, <1>5, <1>6, <1>7 DEF IInv

\* A create starts, is answered, or stops.
LEMMA CreateKeeps ==
    ASSUME IInv, commands' \in 0..MaxCommands, NEW p \in Projects,
           createProject(p) \/ createStops(p) \/ createAnswered(p)
    PROVE  IInv'
  <1>1. TypeOK /\ CreateOK(p) /\ HomeOK(p) /\ creates \in [Projects -> CreateRecord]
        /\ creates[p] \in CreateRecord /\ shown.projects[p] \in 0..2 /\ selectedOrg \in Orgs \cup {None}
    BY Types DEF IInv, TypeOK, CreateRecord
  <1>2. /\ UNCHANGED <<selectedOrg, organizations, home, backend, storeVars, loads, deletes, closes, events, refresh>>
        /\ UNCHANGED <<selectedOrg, organizations>> /\ home' = home /\ shown' = shown
    BY DEF createProject, createStops, createAnswered, storeVars
  <1>3. CASE createProject(p)
    <2> DEFINE new == [pc |-> "posted", current |-> TRUE, org |-> selectedOrg]
    <2>1. selectedOrg # None /\ home[p] = None /\ creates' = [creates EXCEPT ![p] = new]
      BY <1>3 DEF createProject
    <2>2. new \in CreateRecord
      BY <1>1 DEF CreateRecord, CommandRecord
    <2>3. creates'[p].pc = "posted" /\ creates'[p].org = selectedOrg
      BY <1>1, <2>1
    <2>4. shown.projects[p] <= 1
      BY <1>1, <2>1 DEF HomeOK
    <2>5. CreateOK(p)'
      BY <1>1, <1>2, <2>1, <2>3, <2>4 DEF CreateOK
    <2> HIDE DEF new
    <2> QED
      BY <1>2, <2>1, <2>2, <2>5, CreateStepKeeps
  <1>4. CASE createStops(p)
    <2>1. creates' = [creates EXCEPT ![p] = NoCommand] /\ NoCommand \in CreateRecord
      BY <1>1, <1>4, CommandFields DEF createStops, CreateRecord
    <2>2. creates'[p].pc = "idle"
      BY <1>1, <2>1 DEF NoCommand
    <2>3. CreateOK(p)'
      BY <2>2 DEF CreateOK
    <2> QED
      BY <1>2, <2>1, <2>3, CreateStepKeeps
  <1>5. CASE createAnswered(p)
    <2> DEFINE new == [creates[p] EXCEPT !.pc = "filter"]
    <2>1. creates[p].pc = "created" /\ creates' = [creates EXCEPT ![p] = new]
      BY <1>5 DEF createAnswered
    <2>2. new \in CreateRecord /\ new.pc = "filter" /\ new.org = creates[p].org /\ new.current = creates[p].current
      BY <1>1 DEF CreateRecord, CommandRecord
    <2> HIDE DEF new
    <2>3. creates'[p] = new
      BY <1>1, <2>1
    <2>4. CreateOK(p)'
      BY <1>1, <1>2, <2>1, <2>2, <2>3 DEF CreateOK
    <2> QED
      BY <1>2, <2>1, <2>2, <2>4, CreateStepKeeps
  <1> QED
    BY <1>3, <1>4, <1>5

\* The backend creates the project: it has a home from now on, and is not being deleted.
LEMMA createReachesBackendKeeps ==
    ASSUME IInv, UNCHANGED commands, NEW p \in Projects, createReachesBackend(p)
    PROVE  IInv'
  <1> DEFINE org == creates[p].org
  <1> DEFINE new == [creates[p] EXCEPT !.pc = "created"]
  <1>1. /\ creates[p].pc = "posted" /\ home' = [home EXCEPT ![p] = org]
        /\ backend' = [projects |-> backend.projects \cup {p}, workspaces |-> backend.workspaces \cup {p}]
        /\ events' = events \cup {Changed(org)} /\ creates' = [creates EXCEPT ![p] = new]
        /\ UNCHANGED <<selectedOrg, organizations>> /\ shown' = shown /\ active' = active /\ loads' = loads
        /\ deletes' = deletes /\ closes' = closes /\ refresh' = refresh
    BY DEF createReachesBackend, storeVars
  <1>2. /\ TypeOK /\ CreateOK(p) /\ DeleteOK(p) /\ creates \in [Projects -> CreateRecord]
        /\ creates[p] \in CreateRecord /\ home \in [Projects -> Orgs \cup {None}]
    BY DEF IInv, TypeOK, CreateRecord
  <1>3. org \in Orgs /\ org # None /\ home[p] = None
    BY <1>1, <1>2, NoneAssumption DEF CreateOK
  <1>4. new \in CreateRecord /\ new.pc = "created" /\ new.org = org /\ new.current = creates[p].current
    BY <1>2 DEF CreateRecord, CommandRecord
  <1>5. Changed(org) \in [org : Orgs, closed : Projects \cup {None}]
    BY <1>3 DEF Changed
  <1> HIDE DEF org, new
  <1>6. /\ home' \in [Projects -> Orgs \cup {None}] /\ home'[p] = org
        /\ \A q \in Projects : q # p => home'[q] = home[q]
    BY <1>1, <1>2, <1>3
  <1>7. /\ creates' \in [Projects -> CreateRecord] /\ creates'[p] = new
        /\ \A q \in Projects : q # p => creates'[q] = creates[q]
    BY <1>1, <1>2, <1>4
  <1>8. /\ backend' \in Snapshots /\ backend'.projects = backend.projects \cup {p}
        /\ backend'.workspaces = backend.workspaces \cup {p}
    BY <1>1, <1>2, Types DEF Snapshots
  <1>9. TypeOK'
    BY <1>1, <1>2, <1>5, <1>6, <1>7, <1>8 DEF TypeOK, CreateRecord
  <1>10. \A l \in Loads : LoadOK(l)'
    BY <1>1, <1>3, <1>6, <1>8, LoadsStay DEF Mutating
  <1>11. CreateOK(p)' /\ DeleteOK(p)' /\ HomeOK(p)'
    <2>1. deletes[p].pc = "idle"
      BY <1>2, <1>3 DEF DeleteOK
    <2>2. CreateOK(p)'
      BY <1>1, <1>2, <1>3, <1>4, <1>6, <1>7 DEF CreateOK, org
    <2> QED
      BY <1>1, <1>3, <1>6, <2>1, <2>2 DEF DeleteOK, HomeOK
  <1>12. ASSUME NEW q \in Projects, q # p
         PROVE  CreateOK(q)' /\ DeleteOK(q)' /\ HomeOK(q)'
    <2>1. CreateOK(q) /\ DeleteOK(q) /\ HomeOK(q)
      BY DEF IInv
    <2> QED
      BY <1>1, <1>6, <1>7, <1>8, <1>12, <2>1 DEF CreateOK, DeleteOK, HomeOK
  <1>13. RefreshOK'
    BY <1>1, RefreshStays DEF IInv
  <1> QED
    BY <1>9, <1>10, <1>11, <1>12, <1>13 DEF IInv

\* The created project is pushed, beside the record a load may have added.
LEMMA createAppliedKeeps ==
    ASSUME IInv, UNCHANGED commands, NEW p \in Projects, createApplied(p)
    PROVE  IInv'
  <1>1. /\ creates[p].pc = "filter" /\ creates' = [creates EXCEPT ![p] = NoCommand]
        /\ shown' = [projects |-> [shown.projects EXCEPT ![p] = @ + 1],
                     workspaces |-> shown.workspaces \cup {p}]
        /\ UNCHANGED <<selectedOrg, organizations>> /\ home' = home /\ backend' = backend /\ active' = active
        /\ loads' = loads /\ deletes' = deletes /\ closes' = closes /\ events' = events
        /\ refresh' = refresh
    BY DEF createApplied
  <1>2. TypeOK /\ CreateOK(p) /\ DeleteOK(p) /\ creates \in [Projects -> CreateRecord]
    BY DEF IInv, TypeOK, CreateRecord
  <1>3. shown.projects \in [Projects -> 0..2] /\ shown.workspaces \in SUBSET Projects
    BY <1>2, Types
  <1>4. shown.projects[p] + 1 \in 0..2 /\ home[p] # None
    BY <1>1, <1>2, <1>3, NoneAssumption DEF CreateOK
  <1>5. /\ shown'.projects \in [Projects -> 0..2] /\ shown'.workspaces = shown.workspaces \cup {p}
        /\ \A q \in Projects : q # p => shown'.projects[q] = shown.projects[q]
    BY <1>1, <1>3, <1>4
  <1>6. shown' \in [projects : [Projects -> 0..2], workspaces : SUBSET Projects]
    BY <1>1, <1>3, <1>4
  <1>7. /\ creates' \in [Projects -> CreateRecord] /\ creates'[p].pc = "idle"
        /\ \A q \in Projects : q # p => creates'[q] = creates[q]
    BY <1>1, <1>2, CommandFields DEF CreateRecord
  <1>8. TypeOK'
    BY <1>1, <1>2, <1>6, <1>7 DEF TypeOK, CreateRecord
  <1>9. \A l \in Loads : LoadOK(l)'
    BY <1>1, LoadsStay DEF Mutating
  <1>10. CreateOK(p)' /\ DeleteOK(p)' /\ HomeOK(p)'
    <2>1. HomeOK(p)
      BY DEF IInv
    <2> QED
      BY <1>1, <1>2, <1>4, <1>7, <2>1 DEF CreateOK, DeleteOK, HomeOK
  <1>11. ASSUME NEW q \in Projects, q # p
         PROVE  CreateOK(q)' /\ DeleteOK(q)' /\ HomeOK(q)'
    <2>1. CreateOK(q) /\ DeleteOK(q) /\ HomeOK(q)
      BY DEF IInv
    <2> QED
      BY <1>1, <1>5, <1>7, <1>11, <2>1 DEF CreateOK, DeleteOK, HomeOK
  <1>12. RefreshOK'
    BY <1>1, <1>5, RefreshStays DEF IInv
  <1> QED
    BY <1>8, <1>9, <1>10, <1>11, <1>12 DEF IInv

\* A deletion starts: the fence overtakes the loads under way.
LEMMA deleteProjectKeeps ==
    ASSUME IInv, commands' \in 0..MaxCommands, NEW p \in Projects, deleteProject(p)
    PROVE  IInv'
  <1> DEFINE new == [pc |-> "posted", current |-> TRUE, org |-> selectedOrg]
  <1>1. /\ home[p] = selectedOrg /\ p \in Shown /\ deletes' = [deletes EXCEPT ![p] = new] /\ loads' = Overtaken
        /\ UNCHANGED <<selectedOrg, organizations>> /\ home' = home /\ backend' = backend /\ active' = active
        /\ shown' = shown /\ creates' = creates /\ closes' = closes /\ events' = events
        /\ refresh' = refresh
    BY DEF deleteProject, storeVars
  <1>2. /\ TypeOK /\ deletes \in [Projects -> DeleteRecord] /\ selectedOrg \in Orgs \cup {None}
        /\ selectedOrg # None
    BY <1>1, Types DEF IInv, TypeOK, DeleteRecord, HomeOK, Shown
  <1>3. new \in DeleteRecord /\ new.pc = "posted"
    BY <1>2 DEF DeleteRecord, CommandRecord
  <1> HIDE DEF new
  <1>4. /\ deletes' \in [Projects -> DeleteRecord] /\ deletes'[p].pc = "posted"
        /\ \A q \in Projects : q # p => deletes'[q] = deletes[q]
    BY <1>1, <1>2, <1>3
  <1>5. loads' \in [Loads -> LoadRecord] /\ \A l \in Loads : LoadOK(l)'
    BY <1>1, OvertakenQuiet DEF LoadOK, Live
  <1>6. TypeOK'
    BY <1>1, <1>2, <1>4, <1>5 DEF TypeOK, DeleteRecord, LoadRecord
  <1>7. \A q \in Projects : CreateOK(q)' /\ HomeOK(q)'
    BY <1>1 DEF IInv, CreateOK, HomeOK
  <1>8. \A q \in Projects : DeleteOK(q)'
    BY <1>1, <1>2, <1>4 DEF IInv, DeleteOK
  <1>9. RefreshOK'
    BY <1>1, RefreshStays DEF IInv
  <1> QED
    BY <1>5, <1>6, <1>7, <1>8, <1>9 DEF IInv

\* The backend deletes the project, while the fence keeps loads away.
LEMMA deleteReachesBackendKeeps ==
    ASSUME IInv, UNCHANGED commands, NEW p \in Projects, deleteReachesBackend(p)
    PROVE  IInv'
  <1> DEFINE new == [deletes[p] EXCEPT !.pc = "deleted"]
  <1>1. /\ deletes[p].pc = "posted" /\ deletes' = [deletes EXCEPT ![p] = new]
        /\ backend' = [projects |-> backend.projects \ {p}, workspaces |-> backend.workspaces \ {p}]
        /\ events' = events \cup {Changed(home[p])}
        /\ UNCHANGED <<selectedOrg, organizations>> /\ home' = home /\ active' = active /\ loads' = loads
        /\ shown' = shown /\ creates' = creates /\ closes' = closes /\ refresh' = refresh
    BY DEF deleteReachesBackend, storeVars
  <1>2. /\ TypeOK /\ DeleteOK(p) /\ deletes \in [Projects -> DeleteRecord] /\ deletes[p] \in DeleteRecord
    BY DEF IInv, TypeOK, DeleteRecord
  <1>3. new \in DeleteRecord /\ new.pc = "deleted"
    BY <1>2 DEF DeleteRecord, CommandRecord
  <1>4. home[p] # None /\ home[p] \in Orgs
    BY <1>1, <1>2, CommandFields DEF DeleteOK
  <1>5. Changed(home[p]) \in [org : Orgs, closed : Projects \cup {None}]
    BY <1>4 DEF Changed
  <1> HIDE DEF new
  <1>6. /\ deletes' \in [Projects -> DeleteRecord] /\ deletes'[p].pc = "deleted"
        /\ \A q \in Projects : q # p => deletes'[q] = deletes[q]
    BY <1>1, <1>2, <1>3
  <1>7. /\ backend' \in Snapshots /\ backend'.projects = backend.projects \ {p}
        /\ backend'.workspaces = backend.workspaces \ {p}
    BY <1>1, <1>2, Types DEF Snapshots
  <1>8. TypeOK'
    BY <1>1, <1>2, <1>5, <1>6, <1>7 DEF TypeOK, DeleteRecord
  <1>9. \A l \in Loads : LoadOK(l)'
    <2>1. Mutating
      BY <1>1 DEF Mutating
    <2>2. \A l \in Loads : loads[l].pc \notin Live
      BY <2>1 DEF IInv, LoadOK
    <2> QED
      BY <1>1, <2>2 DEF LoadOK, Live
  <1>10. \A q \in Projects : CreateOK(q)' /\ HomeOK(q)'
    BY <1>1, <1>7 DEF IInv, CreateOK, HomeOK
  <1>11. \A q \in Projects : DeleteOK(q)'
    BY <1>1, <1>4, <1>6, <1>7 DEF IInv, DeleteOK
  <1>12. RefreshOK'
    BY <1>1, RefreshStays DEF IInv
  <1> QED
    BY <1>8, <1>9, <1>10, <1>11, <1>12 DEF IInv

\* The deleted project leaves the store, with its workspace.
LEMMA deleteAppliedKeeps ==
    ASSUME IInv, UNCHANGED commands, NEW p \in Projects, deleteApplied(p)
    PROVE  IInv'
  <1> DEFINE new == [deletes[p] EXCEPT !.pc = "tabs"]
  <1>1. /\ deletes[p].pc = "deleted" /\ deletes' = [deletes EXCEPT ![p] = new]
        /\ shown' = [projects |-> [shown.projects EXCEPT ![p] = 0], workspaces |-> shown.workspaces \ {p}]
        /\ active' = IF active = p /\ p \in shown.workspaces THEN None ELSE active
        /\ UNCHANGED <<selectedOrg, organizations>> /\ home' = home /\ backend' = backend /\ loads' = loads
        /\ creates' = creates /\ closes' = closes /\ events' = events /\ refresh' = refresh
    BY DEF deleteApplied
  <1>2. /\ TypeOK /\ DeleteOK(p) /\ deletes \in [Projects -> DeleteRecord] /\ deletes[p] \in DeleteRecord
        /\ shown.projects \in [Projects -> 0..2] /\ shown.workspaces \in SUBSET Projects
    BY Types DEF IInv, TypeOK, DeleteRecord
  <1>3. new \in DeleteRecord /\ new.pc = "tabs"
    BY <1>2 DEF DeleteRecord, CommandRecord
  <1> HIDE DEF new
  <1>4. /\ deletes' \in [Projects -> DeleteRecord] /\ deletes'[p].pc = "tabs"
        /\ \A q \in Projects : q # p => deletes'[q] = deletes[q]
    BY <1>1, <1>2, <1>3
  <1>5. /\ shown'.workspaces = shown.workspaces \ {p} /\ shown'.projects[p] = 0
        /\ \A q \in Projects : q # p => shown'.projects[q] = shown.projects[q]
    BY <1>1, <1>2
  <1>6. shown' \in [projects : [Projects -> 0..2], workspaces : SUBSET Projects]
    BY <1>1, <1>2
  <1>7. active' \in Projects \cup {Folder, None}
    BY <1>1, <1>2 DEF TypeOK
  <1>8. TypeOK'
    BY <1>1, <1>2, <1>4, <1>6, <1>7 DEF TypeOK, DeleteRecord
  <1>9. \A l \in Loads : LoadOK(l)'
    <2>1. Mutating
      BY <1>1 DEF Mutating
    <2> QED
      BY <1>1, <2>1, LoadsStay
  <1>10. \A q \in Projects : CreateOK(q)' /\ HomeOK(q)'
    BY <1>1, <1>5 DEF IInv, CreateOK, HomeOK
  <1>11. \A q \in Projects : DeleteOK(q)'
    BY <1>1, <1>2, <1>4 DEF IInv, DeleteOK
  <1>12. RefreshOK'
    BY <1>1, RefreshStays
  <1> QED
    BY <1>7, <1>8, <1>9, <1>10, <1>11, <1>12 DEF IInv

\* The mutation is released.
LEMMA deleteFinishesKeeps ==
    ASSUME IInv, UNCHANGED commands, NEW p \in Projects, deleteFinishes(p)
    PROVE  IInv'
  <1>1. /\ deletes[p].pc # "idle" /\ deletes' = [deletes EXCEPT ![p] = NoCommand]
        /\ UNCHANGED <<selectedOrg, organizations>> /\ home' = home /\ backend' = backend /\ active' = active
        /\ shown' = shown /\ loads' = loads
        /\ creates' = creates /\ closes' = closes /\ events' = events /\ refresh' = refresh
    BY DEF deleteFinishes, storeVars
  <1>2. TypeOK /\ deletes \in [Projects -> DeleteRecord]
    BY DEF IInv, TypeOK, DeleteRecord
  <1>3. /\ deletes' \in [Projects -> DeleteRecord] /\ deletes'[p].pc = "idle"
        /\ \A q \in Projects : q # p => deletes'[q] = deletes[q]
    BY <1>1, <1>2, CommandFields DEF DeleteRecord
  <1>4. TypeOK'
    BY <1>1, <1>2, <1>3 DEF TypeOK, DeleteRecord
  <1>5. \A l \in Loads : LoadOK(l)'
    <2>1. Mutating
      BY <1>1 DEF Mutating
    <2> QED
      BY <1>1, <2>1, LoadsStay
  <1>6. \A q \in Projects : CreateOK(q)' /\ HomeOK(q)'
    BY <1>1 DEF IInv, CreateOK, HomeOK
  <1>7. \A q \in Projects : DeleteOK(q)'
    BY <1>1, <1>3 DEF IInv, DeleteOK
  <1>8. RefreshOK'
    BY <1>1, RefreshStays DEF IInv
  <1> QED
    BY <1>4, <1>5, <1>6, <1>7, <1>8 DEF IInv

\* Workspaces are closed; the projects stay.
LEMMA WorkspacesKeep ==
    ASSUME IInv, commands' \in 0..MaxCommands, NEW p \in Projects,
           closeWorkspace(p) \/ closeReachesBackend(p) \/ closeFails(p)
    PROVE  IInv'
  <1>1. /\ UNCHANGED <<selectedOrg, organizations>> /\ home' = home /\ loads' = loads /\ creates' = creates
        /\ deletes' = deletes /\ refresh' = refresh
    BY DEF closeWorkspace, closeReachesBackend, closeFails, commandVars
  <1>2. /\ TypeOK /\ shown.projects \in [Projects -> 0..2] /\ shown.workspaces \in SUBSET Projects
        /\ shown \in [projects : [Projects -> 0..2], workspaces : SUBSET Projects]
        /\ closes \in [Projects -> {"idle", "posted"}] /\ backend \in Snapshots
        /\ active \in Projects \cup {Folder, None} /\ events \subseteq [org : Orgs, closed : Projects \cup {None}]
        /\ HomeOK(p)
    BY Types DEF IInv, TypeOK
  <1>3. /\ shown' \in [projects : [Projects -> 0..2], workspaces : SUBSET Projects]
        /\ shown'.projects = shown.projects
        /\ closes' \in [Projects -> {"idle", "posted"}]
        /\ backend' \in Snapshots /\ backend'.projects = backend.projects
        /\ backend'.workspaces \subseteq backend.workspaces
        /\ active' \in Projects \cup {Folder, None}
        /\ events' \subseteq [org : Orgs, closed : Projects \cup {None}]
       
    <2>1. CASE closeWorkspace(p)
      <3>1. /\ shown' = [shown EXCEPT !.workspaces = @ \ {p}] /\ closes' = [closes EXCEPT ![p] = "posted"]
            /\ \/ active' = active /\ active # p
               \/ active' \in (shown.workspaces \ {p}) \cup {Folder, None}
            /\ backend' = backend /\ events' = events
        BY <2>1 DEF closeWorkspace
      <3>2. shown'.workspaces = shown.workspaces \ {p} /\ shown'.projects = shown.projects
        BY <1>2, <3>1
      <3>3. active' \in Projects \cup {Folder, None}
        BY <1>2, <3>1
      <3>4. shown' \in [projects : [Projects -> 0..2], workspaces : SUBSET Projects]
        BY <1>2, <3>1
      <3> QED
        BY <1>2, <3>1, <3>2, <3>3, <3>4
    <2>2. CASE closeReachesBackend(p)
      <3>1. /\ p \in backend.workspaces /\ backend' = [backend EXCEPT !.workspaces = @ \ {p}]
            /\ events' = events \cup {Closed(p)} /\ closes' = [closes EXCEPT ![p] = "idle"]
            /\ shown' = shown /\ active' = active
        BY <2>2 DEF closeReachesBackend, storeVars
      <3>2. home[p] \in Orgs
        BY <1>2, <3>1, CommandFields DEF HomeOK
      <3>3. Closed(p) \in [org : Orgs, closed : Projects \cup {None}]
        BY <3>2 DEF Closed
      <3>4. /\ backend' \in Snapshots /\ backend'.projects = backend.projects
            /\ backend'.workspaces \subseteq backend.workspaces
        BY <1>2, <3>1 DEF Snapshots
      <3> QED
        BY <1>2, <3>1, <3>3, <3>4
    <2>3. CASE closeFails(p)
      BY <1>2, <2>3 DEF closeFails, storeVars
    <2> QED
      BY <2>1, <2>2, <2>3
  <1>4. TypeOK'
    BY <1>1, <1>2, <1>3 DEF TypeOK
  <1>5. \A l \in Loads : LoadOK(l)'
    BY <1>1, <1>3, LoadsStay DEF Mutating
  <1>6. \A q \in Projects : CreateOK(q)' /\ DeleteOK(q)' /\ HomeOK(q)'
    BY <1>1, <1>3 DEF IInv, CreateOK, DeleteOK, HomeOK
  <1>7. RefreshOK'
    BY <1>1, RefreshStays
  <1> QED
    BY <1>3, <1>4, <1>5, <1>6, <1>7 DEF IInv

\* The selection moves, and nothing else.
LEMMA ActivateKeeps ==
    ASSUME IInv, commands' \in 0..MaxCommands,
           deleteLocalFolder \/ \E w \in Projects \cup {Folder, None} : activateWorkspace(w)
    PROVE  IInv'
  <1>1. /\ UNCHANGED <<selectedOrg, organizations>> /\ home' = home /\ backend' = backend
        /\ shown' = shown /\ loads' = loads /\ events' = events /\ refresh' = refresh
        /\ creates' = creates /\ deletes' = deletes /\ closes' = closes
    BY DEF deleteLocalFolder, activateWorkspace, commandVars
  <1>2. active' \in Projects \cup {Folder, None}
    BY Types DEF deleteLocalFolder, activateWorkspace, IInv
  <1>3. TypeOK'
    BY <1>1, <1>2 DEF IInv, TypeOK
  <1>4. \A l \in Loads : LoadOK(l)'
    BY <1>1, LoadsStay DEF Mutating
  <1>5. \A p \in Projects : CreateOK(p)' /\ DeleteOK(p)' /\ HomeOK(p)'
    BY <1>1 DEF IInv, CreateOK, DeleteOK, HomeOK
  <1> QED
    BY <1>1, <1>3, <1>4, <1>5, RefreshStays DEF IInv

\* Another organization is selected: loads and commands under way see it.
LEMMA OrganizationKeeps ==
    ASSUME IInv, commands' \in 0..MaxCommands, NEW o \in Orgs,
           selectOrganization(o) \/ createOrganization(o) \/ leaveOrganization
    PROVE  IInv'
  <1>1. /\ loads' = Overtaken
        /\ creates' = OutOfScope(creates) /\ deletes' = OutOfScope(deletes)
        /\ home' = home /\ backend' = backend /\ active' = active /\ shown' = shown
        /\ closes' = closes /\ events' = events /\ refresh' = refresh
    BY DEF selectOrganization, createOrganization, leaveOrganization, ScopeChanges, storeVars
  <1>2. TypeOK /\ creates \in [Projects -> CreateRecord] /\ deletes \in [Projects -> DeleteRecord]
    BY DEF IInv, TypeOK, CreateRecord, DeleteRecord
  <1>3. /\ organizations' \subseteq Orgs
        /\ selectedOrg' \in IF organizations' = {} THEN {None} ELSE organizations'
    <2>1. organizations \subseteq Orgs
      BY <1>2, Types
    <2>2. CASE selectOrganization(o)
      BY <2>1, <2>2 DEF selectOrganization
    <2>3. CASE createOrganization(o)
      BY <2>1, <2>3 DEF createOrganization
    <2>4. CASE leaveOrganization
      BY <2>1, <2>4 DEF leaveOrganization
    <2> QED
      BY <2>2, <2>3, <2>4
  <1>4. ASSUME NEW q \in Projects
        PROVE  /\ [creates[q] EXCEPT !.current = FALSE] \in CreateRecord
               /\ [deletes[q] EXCEPT !.current = FALSE] \in DeleteRecord
               /\ creates'[q].pc = creates[q].pc /\ creates'[q].org = creates[q].org
               /\ ~creates'[q].current /\ deletes'[q].pc = deletes[q].pc
    <2>1. creates[q] \in CreateRecord /\ deletes[q] \in DeleteRecord
      BY <1>2
    <2>2. /\ creates'[q] = [creates[q] EXCEPT !.current = FALSE]
          /\ deletes'[q] = [deletes[q] EXCEPT !.current = FALSE]
      BY <1>1 DEF OutOfScope
    <2> QED
      BY <2>1, <2>2 DEF CreateRecord, DeleteRecord, CommandRecord
  <1>5. creates' \in [Projects -> CreateRecord] /\ deletes' \in [Projects -> DeleteRecord]
    BY <1>1, <1>4 DEF OutOfScope
  <1>6. loads' \in [Loads -> LoadRecord] /\ \A l \in Loads : LoadOK(l)'
    BY <1>1, OvertakenQuiet DEF LoadOK, Live
  <1>7. TypeOK'
    BY <1>1, <1>2, <1>3, <1>5, <1>6 DEF TypeOK, CreateRecord, DeleteRecord, LoadRecord
  <1>8. ASSUME NEW q \in Projects
        PROVE  CreateOK(q)' /\ DeleteOK(q)' /\ HomeOK(q)'
    <2>1. CreateOK(q) /\ DeleteOK(q) /\ HomeOK(q)
      BY DEF IInv
    <2> QED
      BY <1>1, <1>4, <2>1 DEF CreateOK, DeleteOK, HomeOK
  <1>9. RefreshOK'
    BY <1>1, RefreshStays DEF IInv
  <1> QED
    BY <1>6, <1>7, <1>8, <1>9 DEF IInv

\* A step that changes nothing.
LEMMA StutterKeeps ==
    ASSUME IInv, UNCHANGED vars
    PROVE  IInv'
  <1>1. /\ UNCHANGED <<selectedOrg, organizations, home, backend, storeVars, commandVars, commands>>
        /\ events' = events /\ refresh' = refresh /\ loads' = loads
    BY DEF vars
  <1>2. \A l \in Loads : LoadOK(l)'
    BY <1>1, LoadsStay DEF Mutating, commandVars
  <1>3. loads' \in [Loads -> LoadRecord]
    BY <1>1, Types DEF IInv
  <1> QED
    BY <1>1, <1>2, <1>3, RefreshStays, LoadStepKeeps

\* The invariant is inductive: one lemma for each group of actions.
LEMMA StepKeeps == IInv /\ [Next]_vars => IInv'
  <1> SUFFICES ASSUME IInv, [Next]_vars PROVE IInv'
    OBVIOUS
  <1>1. commands \in 0..MaxCommands
    BY DEF IInv, TypeOK
  <1>2. CASE System /\ UNCHANGED commands
    BY <1>1, <1>2, LoadKeeps, snapshotArrivesKeeps, SelectionStepKeeps, settledKeeps, snapshotChangedKeeps,
       refreshTimerKeeps, createReachesBackendKeeps, CreateKeeps, createAppliedKeeps,
       deleteReachesBackendKeeps, deleteAppliedKeeps, deleteFinishesKeeps, WorkspacesKeep
       DEF System
  <1>3. CASE User /\ Given
    <2>1. commands' \in 0..MaxCommands
      BY <1>1, <1>3, BoundsAssumption DEF Given
    <2>2. ASSUME NEW p \in Projects, createProject(p) \/ deleteProject(p) \/ closeWorkspace(p)
          PROVE  IInv'
      BY <2>1, <2>2, CreateKeeps, deleteProjectKeeps, WorkspacesKeep
    <2>3. ASSUME NEW w \in Projects \cup {Folder, None}, activateWorkspace(w) \/ deleteLocalFolder
          PROVE  IInv'
      BY <2>1, <2>3, ActivateKeeps
    <2>4. ASSUME NEW o \in Orgs, selectOrganization(o) \/ createOrganization(o) \/ leaveOrganization
          PROVE  IInv'
      BY <2>1, <2>4, OrganizationKeeps
    <2> QED
      BY <1>3, <2>2, <2>3, <2>4, OrgsAssumption DEF User
  <1> QED
    BY <1>2, <1>3, StutterKeeps DEF Next

\* Init and the induction step.
LEMMA Invariance == Spec => []IInv
  BY InitOK, StepKeeps, PTL DEF Spec

---------------------------------------------------------------------------
(* What a step does to the projects that are shown. *)

\* A project appears with the answer of a load, or when its creation is applied; it vanishes with
\* the answer of a load that knows of it, or when its deletion is applied.
ShownStep(p) ==
    \/ p \in Shown <=> p \in Shown'
    \/ \E l \in Loads : /\ loads[l].pc = "listed" /\ ~omitsAdded(l)
                        /\ p \in Shown' <=> p \in loads[l].snapshot.projects
    \/ creates[p].pc = "filter" /\ creates[p].current /\ p \in Shown'
    \/ deletes[p].pc = "deleted" /\ p \notin Shown'

\* Every step of the system is one of these for every project.
LEMMA StepShows ==
    ASSUME IInv, [Next]_vars, NEW p \in Projects
    PROVE  ShownStep(p)
  <1>1. TypeOK /\ shown.projects \in [Projects -> 0..2]
    BY Types DEF IInv
  <1>2. CASE shown' = shown \/ shown'.projects = shown.projects
    BY <1>2 DEF ShownStep, Shown
  <1>3. ASSUME NEW l \in Loads, snapshotArrives(l)
        PROVE  ShownStep(p)
    <2>1. /\ loads[l].pc = "listed" /\ ~omitsAdded(l)
          /\ shown'.projects = [q \in Projects |-> IF q \in loads[l].snapshot.projects THEN 1 ELSE 0]
      BY <1>3 DEF snapshotArrives
    <2>2. p \in Shown' <=> p \in loads[l].snapshot.projects
      BY <2>1 DEF Shown
    <2> QED
      BY <2>1, <2>2 DEF ShownStep
  <1>4. ASSUME NEW q \in Projects, createApplied(q)
        PROVE  ShownStep(p)
    <2>1. /\ creates[q].pc = "filter" /\ creates[q].current
          /\ shown'.projects = [shown.projects EXCEPT ![q] = @ + 1]
      BY <1>4 DEF createApplied
    <2>2. CASE p = q
      <3>1. shown'.projects[p] > 0
        BY <1>1, <2>1, <2>2
      <3> QED
        BY <2>1, <2>2, <3>1 DEF ShownStep, Shown
    <2>3. CASE p # q
      <3>1. shown'.projects[p] = shown.projects[p]
        BY <1>1, <2>1, <2>3
      <3> QED
        BY <3>1 DEF ShownStep, Shown
    <2> QED
      BY <2>2, <2>3
  <1>5. ASSUME NEW q \in Projects, deleteApplied(q)
        PROVE  ShownStep(p)
    <2>1. deletes[q].pc = "deleted" /\ shown'.projects = [shown.projects EXCEPT ![q] = 0]
      BY <1>5 DEF deleteApplied
    <2>2. CASE p = q
      <3>1. shown'.projects[p] = 0
        BY <1>1, <2>1, <2>2
      <3> QED
        BY <2>1, <2>2, <3>1 DEF ShownStep, Shown
    <2>3. CASE p # q
      <3>1. shown'.projects[p] = shown.projects[p]
        BY <1>1, <2>1, <2>3
      <3> QED
        BY <3>1 DEF ShownStep, Shown
    <2> QED
      BY <2>2, <2>3
  <1>6. ASSUME (\E q \in Projects : closeWorkspace(q)) \/ (\E l \in Loads : noOrganization(l))
        PROVE  ShownStep(p)
    <2>1. shown'.projects = shown.projects
      BY <1>6 DEF closeWorkspace, noOrganization, IInv, TypeOK
    <2> QED
      BY <1>2, <2>1
  <1>7. CASE UNCHANGED vars
    BY <1>2, <1>7 DEF vars, storeVars
  <1>8. ASSUME NEW l \in Loads,
               load(l) \/ filterHydrated(l) \/ projectsListed(l) \/ snapshotSkipped(l) \/ loadEnds(l)
               \/ settled(l) \/ foldersLoaded(l)
        PROVE  shown' = shown
    BY <1>8 DEF foldersLoaded, load, filterHydrated, projectsListed, snapshotSkipped, loadEnds, settled, storeVars
  <1>9. ASSUME NEW q \in Projects,
               \/ createReachesBackend(q) \/ createStops(q) \/ createAnswered(q)
               \/ deleteReachesBackend(q) \/ deleteFinishes(q)
               \/ closeReachesBackend(q) \/ closeFails(q)
               \/ createProject(q) \/ deleteProject(q)
        PROVE  shown' = shown
    BY <1>9 DEF createReachesBackend, createStops, createAnswered, deleteReachesBackend, deleteFinishes,
         closeReachesBackend, closeFails, createProject, deleteProject, storeVars
  <1>10. ASSUME \/ \E e \in events : snapshotChanged(e)
                \/ refreshTimer
                \/ \E w \in Projects \cup {Folder, None} : activateWorkspace(w)
                \/ deleteLocalFolder \/ leaveOrganization
                \/ \E o \in Orgs : selectOrganization(o) \/ createOrganization(o)
         PROVE  shown' = shown
    BY <1>10 DEF snapshotChanged, refreshTimer, activateWorkspace, deleteLocalFolder, leaveOrganization,
         selectOrganization, createOrganization, ScopeChanges, storeVars
  <1>11. CASE System
    BY <1>2, <1>3, <1>4, <1>5, <1>6, <1>8, <1>9, <1>10, <1>11 DEF System
  <1>12. CASE User
    BY <1>2, <1>6, <1>9, <1>10, <1>12 DEF User
  <1> QED
    BY <1>7, <1>11, <1>12 DEF Next

\* What the answer of a load knows of a project.
LEMMA AnswerKnows ==
    ASSUME IInv, NEW l \in Loads, loads[l].pc = "listed", NEW p \in Projects
    PROVE  /\ p \in loads[l].snapshot.projects => p \in backend.projects /\ (home[p] = selectedOrg \/ organizations = {})
           /\ ~omitsAdded(l) /\ p \in Shown /\ p \in backend.projects /\ home[p] = selectedOrg
                => p \in loads[l].snapshot.projects
  <1>1. LoadOK(l) /\ HomeOK(p) /\ TypeOK
    BY DEF IInv
  <1>2. p \in Shown /\ home[p] = selectedOrg => loads[l].org = selectedOrg
    BY <1>1, Types DEF LoadOK, Live, HomeOK, Shown
  <1> QED
    BY <1>1, <1>2 DEF LoadOK, Live, omitsAdded

\* Which steps but the user's commands move the selection.
LEMMA StepSelects ==
    ASSUME IInv, [Next]_vars, active' # active, commands' = commands
    PROVE  \/ \E l \in Loads : snapshotArrives(l) \/ foldersLoaded(l)
           \/ \E p \in Projects : deleteApplied(p)
  <1>1. System
    <2>1. commands \in Nat
      BY BoundsAssumption DEF IInv, TypeOK
    <2> QED
      BY <2>1 DEF Next, Given, vars, storeVars
  <1>2. ASSUME NEW l \in Loads,
               \/ load(l) \/ noOrganization(l) \/ filterHydrated(l) \/ projectsListed(l)
               \/ snapshotSkipped(l) \/ loadEnds(l) \/ settled(l)
        PROVE  FALSE
    BY <1>2 DEF load, noOrganization, filterHydrated, projectsListed, snapshotSkipped, loadEnds,
         settled, storeVars
  <1>3. ASSUME NEW q \in Projects,
               \/ createReachesBackend(q) \/ createStops(q) \/ createAnswered(q) \/ createApplied(q)
               \/ deleteReachesBackend(q) \/ deleteFinishes(q)
               \/ closeReachesBackend(q) \/ closeFails(q)
        PROVE  FALSE
    BY <1>3 DEF createReachesBackend, createStops, createAnswered, createApplied,
         deleteReachesBackend, deleteFinishes, closeReachesBackend, closeFails, storeVars
  <1>4. ASSUME refreshTimer \/ \E e \in events : snapshotChanged(e)
        PROVE  FALSE
    BY <1>4 DEF snapshotChanged, refreshTimer, storeVars
  <1> QED
    BY <1>1, <1>2, <1>3, <1>4 DEF System

---------------------------------------------------------------------------
(* The theorems. *)

\* The stores, loads, commands and timers keep their types; in particular a project is never
\* recorded more than twice, and the timers under way stay within their bound.
THEOREM TypeCorrect == Spec => []TypeOK
  BY Invariance, PTL DEF IInv

\* An invalidation that asked for a refresh has a timer coming or a load that another will follow.
THEOREM InvalidationsAreKept == Spec => []NoLostInvalidation
  BY Invariance, PTL DEF IInv, RefreshOK

\* A project gone from the backend and the store comes back with no load: the fence of the
\* deletion overtook every load that could still list it.
THEOREM DeletedProjectsStayDeleted == Spec => DeletedStaysDeleted
  <1>1. ASSUME IInv, [Next]_vars
        PROVE  \A p \in Projects :
                 home[p] # None /\ p \notin backend.projects /\ p \notin Shown /\ p \in Shown'
                 => creates[p].pc = "filter"
    <2> SUFFICES ASSUME NEW p \in Projects, p \notin backend.projects, p \notin Shown, p \in Shown'
                 PROVE  creates[p].pc = "filter"
      OBVIOUS
    <2> QED
      BY <1>1, StepShows, AnswerKnows DEF ShownStep
  <1> QED
    BY <1>1, Invariance, PTL DEF Spec, DeletedStaysDeleted

\* A project the user sees, and the backend has, does not vanish while its organization is
\* selected: a load that did not know of it is skipped, and only a deletion that the backend has
\* executed takes it away.
THEOREM VisibleProjectsStayVisible == Spec => VisibleStaysVisible
  <1>1. ASSUME IInv, [Next]_vars
        PROVE  \A p \in Projects :
                 /\ p \in Shown /\ p \in backend.projects
                 /\ home[p] = selectedOrg
                 => p \in Shown'
    <2> SUFFICES ASSUME NEW p \in Projects,
                        p \in Shown, p \in backend.projects, home[p] = selectedOrg
                 PROVE  p \in Shown'
      OBVIOUS
    <2>1. deletes[p].pc # "deleted"
      BY <1>1 DEF IInv, DeleteOK
    <2> QED
      BY <1>1, <2>1, StepShows, AnswerKnows DEF ShownStep
  <1> QED
    BY <1>1, Invariance, PTL DEF Spec, VisibleStaysVisible

\* A project appears only while its organization is selected, unless the session lists none.
THEOREM ProjectsAppearAtHome == Spec => AppearsInItsOrganization
  <1>1. ASSUME IInv, [Next]_vars
        PROVE  \A p \in Projects : p \notin Shown /\ p \in Shown' => home[p] = selectedOrg \/ organizations = {}
    <2> SUFFICES ASSUME NEW p \in Projects, p \notin Shown, p \in Shown'
                 PROVE  home[p] = selectedOrg \/ organizations = {}
      OBVIOUS
    <2>1. creates[p].pc = "filter" /\ creates[p].current => home[p] = selectedOrg
      BY <1>1 DEF IInv, CreateOK
    <2> QED
      BY <1>1, <2>1, StepShows, AnswerKnows DEF ShownStep
  <1> QED
    BY <1>1, Invariance, PTL DEF Spec, AppearsInItsOrganization

\* A load does not move the user off a workspace of the selected organization that is displayed and
\* that the backend has: the load lists its project, and so its workspace, or is skipped.
THEOREM SelectionsSurviveLoads == Spec => SelectionSurvivesLoads
  <1>1. ASSUME IInv, [Next]_vars
        PROVE  \/ active' = active \/ commands' # commands
               \/ active \notin Shown \cap backend.workspaces
               \/ home[active] # selectedOrg
               \/ \E l \in Loads : loads[l].pc = "rest" /\ loads[l].folder /\ active' = Folder
    <2> SUFFICES ASSUME active' # active, commands' = commands,
                        active \in Shown, active \in backend.workspaces, home[active] = selectedOrg
                 PROVE  \E l \in Loads : loads[l].pc = "rest" /\ loads[l].folder /\ active' = Folder
      OBVIOUS
    <2>1. active \in Projects /\ TypeOK /\ active \in backend.projects
      BY <1>1 DEF IInv, HomeOK, Shown
    <2>2. ASSUME NEW l \in Loads, snapshotArrives(l)
          PROVE  FALSE
      <3>1. /\ loads[l].pc = "listed" /\ ~omitsAdded(l)
            /\ active' \in resolveHydratedSelection(loads[l].snapshot.workspaces)
        BY <2>2 DEF snapshotArrives
      <3>2. active \in loads[l].snapshot.projects
        BY <1>1, <2>1, <3>1, AnswerKnows
      <3>3. active \in loads[l].snapshot.workspaces
        BY <1>1, <3>1, <3>2 DEF IInv, LoadOK
      <3> QED
        BY <3>1, <3>3 DEF resolveHydratedSelection
    <2>3. ASSUME NEW p \in Projects, deleteApplied(p)
          PROVE  FALSE
      BY <1>1, <2>1, <2>3 DEF deleteApplied, IInv, DeleteOK
    <2>4. ASSUME NEW l \in Loads, foldersLoaded(l)
          PROVE  loads[l].pc = "rest" /\ loads[l].folder /\ active' = Folder
      BY <2>4 DEF foldersLoaded
    <2> QED
      BY <1>1, <2>2, <2>3, <2>4, StepSelects
  <1> QED
    BY <1>1, Invariance, PTL DEF Spec, SelectionSurvivesLoads

=============================================================================
