------------------------------ MODULE Handoff ------------------------------
(***************************************************************************)
(* Authority over entities across stations: the roles of the records in    *)
(* station.rs, the two-phase handoff of handoff.rs and the in-process      *)
(* EntityMigrationExecutor of the runtime.                                 *)
(*                                                                         *)
(* A handoff is four calls the integration makes, and everything else the  *)
(* stations do may happen between them: prepare_outgoing_handoff captures  *)
(* the owner's state, prewarm_handoff_ghost installs a ghost at the        *)
(* target, commit_incoming_handoff makes the target owner and              *)
(* commit_outgoing_handoff turns the source into a ghost.  migrate_entity  *)
(* makes the four in one call.                                             *)
(*                                                                         *)
(* Storage is Station.tla's subject: get_by_id is a function of the id     *)
(* there (IdIndexCoherent), so a station is here a map from ids to         *)
(* records, and a record its role and the number of moves it has seen.     *)
(* Nothing in the code compares expires_at or prepared_at with a tick, so  *)
(* ghosts may be discarded at any time and ticks are left out.             *)
(*                                                                         *)
(* What the integration must respect, because no call checks it:           *)
(*   - an id is spawned at one station only while nobody owns it;          *)
(*   - an entity has at most one handoff open, its steps in order (a step  *)
(*     may be repeated), and is not migrated or spawned meanwhile;         *)
(*   - a ghost refresh comes from the holder and is not applied where the  *)
(*     entity is owned.                                                    *)
(* SpecDelayed drops the last one: refreshes travel and arrive late.       *)
(***************************************************************************)
EXTENDS Integers, FiniteSets

CONSTANTS
    Stations, Entities,
    MaxEpoch,    \* bound on owner epochs (u64 in the code)
    MaxMoves,    \* bound on moves of an entity
    Nobody       \* no station, no record

ASSUME HandoffAssumption ==
    /\ MaxEpoch \in Nat
    /\ MaxMoves \in Nat
    /\ Nobody \notin Stations

Epochs == 0 .. MaxEpoch

\* EntityRole with the state it protects.  An owned record names its own
\* station, so "owner" is always where this copy says the authority is.
Copy == [owned : BOOLEAN, owner : Stations, epoch : Epochs, version : Nat]
Absent == [owned |-> FALSE, owner |-> Nobody, epoch |-> 0, version |-> 0]

\* HandoffTransfer in the hands of the driver, and how far it has come.
Transfer == [phase : {"prepared", "switched"}, source : Stations, target : Stations,
             sourceEpoch : Epochs, targetEpoch : Epochs, version : Nat]
NoTransfer == [phase |-> "none"]

VARIABLES
    copy,         \* station -> entity -> Copy or Absent
    owner_epoch,  \* station -> its owner epoch
    transfer,     \* entity -> open handoff
    moves,        \* history: entity -> moves made under its authority
    late,         \* history: entity -> moves since its open handoff captured it
    lost,         \* history: entity -> moves no handoff carried over
    refreshes     \* ghost refreshes under way (SpecDelayed)

vars == <<copy, owner_epoch, transfer, moves, late, lost, refreshes>>
history == <<moves, late, lost>>

Refresh == [entity : Entities, to : Stations, owner : Stations,
            epoch : Epochs, version : Nat]

\* Records, epochs and transfers keep their types.
TypeOK ==
    /\ copy \in [Stations -> [Entities -> Copy \cup {Absent}]]
    /\ owner_epoch \in [Stations -> Epochs]
    /\ transfer \in [Entities -> Transfer \cup {NoTransfer}]
    /\ moves \in [Entities -> Nat]
    /\ late \in [Entities -> Nat]
    /\ lost \in [Entities -> Nat]
    /\ refreshes \in SUBSET Refresh

Init ==
    /\ copy = [s \in Stations |-> [e \in Entities |-> Absent]]
    /\ owner_epoch = [s \in Stations |-> 0]
    /\ transfer = [e \in Entities |-> NoTransfer]
    /\ moves = [e \in Entities |-> 0]
    /\ late = [e \in Entities |-> 0]
    /\ lost = [e \in Entities |-> 0]
    /\ refreshes = {}

Holds(s, e) == copy[s][e] # Absent
Owns(s, e) == copy[s][e].owned
Owners(e) == {s \in Stations : Owns(s, e)}
Open(e) == transfer[e] # NoTransfer

\* Who holds an entity as the integration sees it: from commit_incoming_handoff
\* on the target's word counts, and the source's copy no longer does.
Holders(e) ==
    IF transfer[e].phase = "switched" THEN Owners(e) \ {transfer[e].source} ELSE Owners(e)

holding == [e \in Entities |-> Holders(e)]

Owned(s, epoch, version) ==
    [owned |-> TRUE, owner |-> s, epoch |-> epoch, version |-> version]
Ghost(owner, epoch, version) ==
    [owned |-> FALSE, owner |-> owner, epoch |-> epoch, version |-> version]

-----------------------------------------------------------------------------
(* Single-station operations. *)

\* spawn_owned, under the station's current epoch.
SpawnOwned(s, e) ==
    /\ ~Open(e)
    /\ Owners(e) = {}
    /\ ~Holds(s, e)
    /\ copy' = [copy EXCEPT ![s][e] = Owned(s, owner_epoch[s], 0)]
    /\ moves' = [moves EXCEPT ![e] = 0]
    /\ late' = [late EXCEPT ![e] = 0]
    /\ lost' = [lost EXCEPT ![e] = 0]
    /\ UNCHANGED <<owner_epoch, transfer, refreshes>>

\* The source of an open handoff keeps accepting moves, which the captured
\* state does not have.
IsSource(s, e, phase) == transfer[e].phase = phase /\ transfer[e].source = s

\* move_owned.
MoveOwned(s, e) ==
    /\ Owns(s, e)
    /\ moves[e] < MaxMoves
    /\ copy' = [copy EXCEPT ![s][e].version = @ + 1]
    /\ moves' = [moves EXCEPT ![e] = @ + 1]
    /\ late' = [late EXCEPT ![e] = IF IsSource(s, e, "prepared") THEN @ + 1 ELSE @]
    /\ lost' = [lost EXCEPT ![e] = IF IsSource(s, e, "switched") THEN @ + 1 ELSE @]
    /\ UNCHANGED <<owner_epoch, transfer, refreshes>>

\* remove, of a ghost to be discarded or of the entity itself.
Remove(s, e) ==
    /\ Holds(s, e)
    /\ copy' = [copy EXCEPT ![s][e] = Absent]
    /\ UNCHANGED <<owner_epoch, transfer, history, refreshes>>

\* upsert_ghost with what the holder o now has, at a station that does not own
\* the entity.
RefreshGhost(o, s, e) ==
    /\ o \in Holders(e)
    /\ ~Owns(s, e)
    /\ copy' = [copy EXCEPT ![s][e] = Ghost(o, copy[o][e].epoch, copy[o][e].version)]
    /\ UNCHANGED <<owner_epoch, transfer, history, refreshes>>

\* next_owner_epoch.
NextEpoch(s) == owner_epoch[s] + 1

Reserve(s) ==
    /\ NextEpoch(s) \in Epochs
    /\ owner_epoch' = [owner_epoch EXCEPT ![s] = NextEpoch(s)]

-----------------------------------------------------------------------------
(* The two-phase handoff. *)

\* next_owner_epoch at the target, then prepare_outgoing_handoff at the source.
PrepareOutgoingHandoff(e, s, t) ==
    /\ ~Open(e)
    /\ s # t
    /\ Owns(s, e)
    /\ Reserve(t)
    /\ transfer' = [transfer EXCEPT ![e] =
          [phase |-> "prepared", source |-> s, target |-> t,
           sourceEpoch |-> copy[s][e].epoch, targetEpoch |-> NextEpoch(t),
           version |-> copy[s][e].version]]
    /\ UNCHANGED <<copy, history, refreshes>>

\* Mutated: the ghost is installed at the source.
PrewarmHandoffGhostAtSource(e) ==
    /\ transfer[e].phase = "prepared"
    /\ LET x == transfer[e]
       IN copy' = [copy EXCEPT ![x.source][e] =
                       Ghost(x.target, x.sourceEpoch, x.version)]
    /\ UNCHANGED <<owner_epoch, transfer, history, refreshes>>

\* prewarm_handoff_ghost at the target.
PrewarmHandoffGhost(e) ==
    /\ transfer[e].phase = "prepared"
    /\ LET x == transfer[e]
       IN copy' = [copy EXCEPT ![x.target][e] =
                       Ghost(x.source, x.sourceEpoch, x.version)]
    /\ UNCHANGED <<owner_epoch, transfer, history, refreshes>>

\* Mutated: the prewarmed ghost is promoted as it is, or the epoch advanced again.
CommitIncomingHandoffPromoting(e) ==
    /\ transfer[e].phase = "prepared"
    /\ LET x == transfer[e]
       IN /\ ~Owns(x.target, e)
          /\ copy' = [copy EXCEPT ![x.target][e] =
                          Owned(x.target, x.targetEpoch, @.version)]
          /\ owner_epoch' = [owner_epoch EXCEPT ![x.target] = x.targetEpoch]
    /\ transfer' = [transfer EXCEPT ![e].phase = "switched"]
    /\ lost' = [lost EXCEPT ![e] = @ + late[e]]
    /\ late' = [late EXCEPT ![e] = 0]
    /\ UNCHANGED <<moves, refreshes>>

\* commit_incoming_handoff at the target, which also takes the transfer's epoch
\* as the station's.  Repeated, it is refused with AlreadyOwner.
CommitIncomingHandoff(e) ==
    /\ transfer[e].phase = "prepared"
    /\ LET x == transfer[e]
       IN /\ ~Owns(x.target, e)
          /\ copy' = [copy EXCEPT ![x.target][e] =
                          Owned(x.target, x.targetEpoch, x.version)]
          /\ owner_epoch' = [owner_epoch EXCEPT ![x.target] = x.targetEpoch]
    /\ transfer' = [transfer EXCEPT ![e].phase = "switched"]
    /\ lost' = [lost EXCEPT ![e] = @ + late[e]]
    /\ late' = [late EXCEPT ![e] = 0]
    /\ UNCHANGED <<moves, refreshes>>

\* Mutated: the source stays owner, or its ghost still names the source.
CommitOutgoingHandoffOwning(e) ==
    /\ transfer[e].phase = "switched"
    /\ transfer' = [transfer EXCEPT ![e] = NoTransfer]
    /\ UNCHANGED <<copy, owner_epoch, history, refreshes>>

CommitOutgoingHandoffUnpointed(e) ==
    /\ transfer[e].phase = "switched"
    /\ LET x == transfer[e]
       IN copy' = IF Owns(x.source, e)
                  THEN [copy EXCEPT ![x.source][e].owned = FALSE]
                  ELSE copy
    /\ transfer' = [transfer EXCEPT ![e] = NoTransfer]
    /\ UNCHANGED <<owner_epoch, history, refreshes>>

\* commit_outgoing_handoff at the source closes the handoff.  If the source no
\* longer owns the entity the call fails (MissingEntity, NotOwner).
CommitOutgoingHandoff(e) ==
    /\ transfer[e].phase = "switched"
    /\ LET x == transfer[e]
       IN copy' = IF Owns(x.source, e)
                  THEN [copy EXCEPT ![x.source][e] =
                            Ghost(x.target, x.targetEpoch, copy[x.source][e].version)]
                  ELSE copy
    /\ transfer' = [transfer EXCEPT ![e] = NoTransfer]
    /\ UNCHANGED <<owner_epoch, history, refreshes>>

\* The driver gives up before anything was committed.
Abandon(e) ==
    /\ transfer[e].phase = "prepared"
    /\ transfer' = [transfer EXCEPT ![e] = NoTransfer]
    /\ late' = [late EXCEPT ![e] = 0]
    /\ UNCHANGED <<copy, owner_epoch, moves, lost, refreshes>>

\* Mutated: the source's half is left out.
MigrateEntityHalf(e, s, t) ==
    /\ ~Open(e)
    /\ s # t
    /\ Reserve(t)
    /\ copy' = IF Owns(s, e)
               THEN [copy EXCEPT ![t][e] = Owned(t, NextEpoch(t), copy[s][e].version)]
               ELSE copy
    /\ UNCHANGED <<transfer, history, refreshes>>

\* EntityMigrationExecutor::migrate_entity: the epoch is taken at the target
\* before prepare_outgoing_handoff is asked, and stays taken when it refuses.
MigrateEntity(e, s, t) ==
    /\ ~Open(e)
    /\ s # t
    /\ Reserve(t)
    /\ copy' = IF Owns(s, e)
               THEN [copy EXCEPT
                        ![t][e] = Owned(t, NextEpoch(t), copy[s][e].version),
                        ![s][e] = Ghost(t, NextEpoch(t), copy[s][e].version)]
               ELSE copy
    /\ UNCHANGED <<transfer, history, refreshes>>

Next ==
    \E e \in Entities :
        \/ \E s \in Stations : SpawnOwned(s, e) \/ MoveOwned(s, e) \/ Remove(s, e)
        \/ \E s, t \in Stations :
              \/ RefreshGhost(s, t, e)
              \/ PrepareOutgoingHandoff(e, s, t)
              \/ MigrateEntity(e, s, t)
        \/ PrewarmHandoffGhost(e)
        \/ CommitIncomingHandoff(e)
        \/ CommitOutgoingHandoff(e)
        \/ Abandon(e)

Spec == Init /\ [][Next]_vars

-----------------------------------------------------------------------------
(* Ghost refreshes that travel between stations. *)

SendRefresh(o, s, e) ==
    /\ o \in Holders(e)
    /\ o # s
    /\ refreshes' = refreshes \cup
          {[entity |-> e, to |-> s, owner |-> o,
            epoch |-> copy[o][e].epoch, version |-> copy[o][e].version]}
    /\ UNCHANGED <<copy, owner_epoch, transfer, history>>

\* upsert_ghost looks neither at the role nor at the epoch of the record it
\* refreshes.
DeliverRefresh(m) ==
    /\ refreshes' = refreshes \ {m}
    /\ copy' = [copy EXCEPT ![m.to][m.entity] = Ghost(m.owner, m.epoch, m.version)]
    /\ UNCHANGED <<owner_epoch, transfer, history>>

NextDelayed ==
    \/ Next
    \/ \E e \in Entities, o, s \in Stations : SendRefresh(o, s, e)
    \/ \E m \in refreshes : DeliverRefresh(m)

SpecDelayed == Init /\ [][NextDelayed]_vars

-----------------------------------------------------------------------------
(* Properties. *)

\* Two stations own an entity only inside the window of its open handoff, and
\* they are its source and its target.
OwnerWindow ==
    \A e \in Entities :
        \A s, t \in Owners(e) :
            s # t => /\ transfer[e] # NoTransfer
                     /\ transfer[e].phase = "switched"
                     /\ {s, t} = {transfer[e].source, transfer[e].target}

\* Following the owner a ghost names never runs in a circle: no set of stations
\* holds ghosts of an entity that only name one another.
NoForwardingCycle ==
    \A e \in Entities : \A C \in (SUBSET Stations) \ {{}} :
        ~ \A s \in C : Holds(s, e) /\ ~Owns(s, e) /\ copy[s][e].owner \in C

\* Whatever happens between its calls, the handoff implements authority that is
\* held once and moves in one step.
Authority == INSTANCE EntityAuthority WITH holders <- holding
SingleAuthority == Authority!Spec

\* A handoff carries the entity's state over exactly: the holder has seen every
\* move but the ones the source made after the state was captured.  (TypeOK keeps
\* its epochs among the ones the stations have reserved.)
MovesAccounted ==
    /\ TypeOK
    /\ \A e \in Entities : \A s \in Holders(e) :
          copy[s][e].version + lost[e] = moves[e]

\* README.md:15, "Single-owner authority, read-only ghosts": an owner becomes a
\* ghost only in favour of another owner, or as the source of a handoff that has
\* switched; a ghost refresh never takes the last authority away.
OwnerDemotedForOwner ==
    [][\A e \in Entities, s \in Stations :
          Owns(s, e) /\ Holds(s, e)' /\ ~Owns(s, e)'
          => Owners(e)' # {} \/ IsSource(s, e, "switched")]_vars
=============================================================================
