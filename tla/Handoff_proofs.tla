--------------------------- MODULE Handoff_proofs ---------------------------
(***************************************************************************)
(* Authority is single for any number of stations and entities: the        *)
(* two-phase handoff implements EntityAuthority.                           *)
(***************************************************************************)
EXTENDS Handoff, TLAPS

\* The station holds a copy it does not own.
IsGhost(s, e) == Holds(s, e) /\ ~Owns(s, e)

\* Who may own e, and which end of an open handoff has no ghost.
RolesMatchPhase(e) ==
    /\ transfer[e].phase = "none" => \A s, t \in Owners(e) : s = t
    /\ transfer[e].phase = "prepared" =>
          Owners(e) \subseteq {transfer[e].source} /\ ~IsGhost(transfer[e].source, e)
    /\ transfer[e].phase = "switched" =>
          /\ Owners(e) \subseteq {transfer[e].source, transfer[e].target}
          /\ ~IsGhost(transfer[e].target, e)
    /\ transfer[e] # NoTransfer => transfer[e].source # transfer[e].target

NoCycle(e) ==
    \A C \in (SUBSET Stations) \ {{}} :
        ~ \A s \in C : Holds(s, e) /\ ~Owns(s, e) /\ copy[s][e].owner \in C

HInv == TypeOK /\ \A e \in Entities : RolesMatchPhase(e) /\ NoCycle(e)

\* The copies of e, and its handoff, are as they were.
Untouched(e) ==
    /\ transfer'[e] = transfer[e]
    /\ \A s \in Stations : copy'[s][e] = copy[s][e]

\* The values that stand for no record and no transfer are not real ones.
LEMMA Values ==
    /\ NoTransfer \notin Transfer
    /\ NoTransfer.phase = "none"
    /\ Absent.owned = FALSE /\ Absent \notin Copy
    /\ \A x \in Transfer : x.phase \in {"prepared", "switched"}
BY HandoffAssumption DEF NoTransfer, Transfer, Absent, Copy

\* What a step leaves alone of an entity keeps its part of the invariant.
LEMMA UntouchedHolds ==
    ASSUME NEW e \in Entities, TypeOK, RolesMatchPhase(e), NoCycle(e), Untouched(e)
    PROVE  RolesMatchPhase(e)' /\ NoCycle(e)'
<1>1. Owners(e)' = Owners(e)
  BY DEF Untouched, Owners, Owns
<1>2. \A s \in Stations : Holds(s, e)' = Holds(s, e) /\ Owns(s, e)' = Owns(s, e)
  BY DEF Untouched, Holds, Owns
<1>3. RolesMatchPhase(e)'
  <2>1. transfer[e] # NoTransfer => transfer[e].source \in Stations /\ transfer[e].target \in Stations
    BY DEF TypeOK, Transfer
  <2>2. transfer[e].phase = "prepared" \/ transfer[e].phase = "switched" => transfer[e] # NoTransfer
    BY DEF NoTransfer
  <2> QED BY <1>1, <1>2, <2>1, <2>2 DEF RolesMatchPhase, Untouched, IsGhost
<1>4. NoCycle(e)'
  BY <1>2 DEF NoCycle, Untouched
<1> QED BY <1>3, <1>4

\* A ghost that is made to name a station o without a ghost closes no circle.
LEMMA PointAtRoot ==
    ASSUME NEW e \in Entities, NoCycle(e), NEW o \in Stations, ~IsGhost(o, e)',
           \A s \in Stations : IsGhost(s, e)' =>
              \/ copy'[s][e].owner = o
              \/ IsGhost(s, e) /\ copy'[s][e].owner = copy[s][e].owner
    PROVE  NoCycle(e)'
BY DEF NoCycle, IsGhost

\* spawn_owned makes an owner where there was none, so no ghost is added.
LEMMA SpawnOwnedHolds ==
    ASSUME HInv, NEW e \in Entities, NEW s \in Stations, SpawnOwned(s, e)
    PROVE  HInv'
<1>1. TypeOK'
  BY DEF HInv, TypeOK, SpawnOwned, history, Owned, Copy, Epochs
<1>2. \A x \in Entities \ {e} : Untouched(x)
  BY DEF HInv, TypeOK, SpawnOwned, Untouched
<1>3. Owners(e)' = {s} /\ ~IsGhost(s, e)' /\ transfer'[e] = NoTransfer
  BY DEF HInv, TypeOK, SpawnOwned, Owners, Owns, Owned, IsGhost, Open
<1>4. RolesMatchPhase(e)'
  BY <1>3, Values DEF RolesMatchPhase, NoTransfer
<1>5. NoCycle(e)'
  <2>1. \A x \in Stations : IsGhost(x, e)' => IsGhost(x, e) /\ copy'[x][e] = copy[x][e]
    BY <1>3 DEF HInv, TypeOK, SpawnOwned, IsGhost, Holds, Owns
  <2> QED BY <1>3, <2>1, PointAtRoot DEF HInv
<1> QED BY <1>1, <1>2, <1>4, <1>5, UntouchedHolds DEF HInv

\* move_owned changes a version only: roles and what ghosts name stay.
LEMMA MoveOwnedHolds ==
    ASSUME HInv, NEW e \in Entities, NEW s \in Stations, MoveOwned(s, e)
    PROVE  HInv'
<1>0. copy[s][e] \in Copy
  BY Values DEF HInv, TypeOK, MoveOwned, Owns
<1>1. TypeOK'
  <2>1. [copy[s][e] EXCEPT !.version = @ + 1] \in Copy
    BY <1>0 DEF Copy
  <2>2. copy' \in [Stations -> [Entities -> Copy \cup {Absent}]]
    BY <2>1 DEF HInv, TypeOK, MoveOwned
  <2>3. moves' \in [Entities -> Nat] /\ late' \in [Entities -> Nat] /\ lost' \in [Entities -> Nat]
    BY DEF HInv, TypeOK, MoveOwned
  <2> QED BY <2>2, <2>3 DEF HInv, TypeOK, MoveOwned
<1>2. \A x \in Entities \ {e} : Untouched(x)
  BY DEF HInv, TypeOK, MoveOwned, Untouched
<1>3. /\ transfer' = transfer
      /\ \A x \in Stations : /\ Owns(x, e)' = Owns(x, e)
                             /\ IsGhost(x, e)' = IsGhost(x, e)
                             /\ copy'[x][e].owner = copy[x][e].owner
  BY <1>0, Values DEF HInv, TypeOK, MoveOwned, Owns, Holds, IsGhost, Copy, Absent
<1>4. Owners(e)' = Owners(e) BY <1>3 DEF Owners
<1>5. RolesMatchPhase(e)'
  BY <1>3, <1>4 DEF HInv, TypeOK, RolesMatchPhase, NoTransfer, Transfer
<1>6. NoCycle(e)'
  BY <1>3, PointAtRoot DEF HInv, IsGhost, MoveOwned
<1> QED BY <1>1, <1>2, <1>5, <1>6, UntouchedHolds DEF HInv

\* remove takes a record away: fewer owners, and fewer ghosts to form a circle.
LEMMA RemoveHolds ==
    ASSUME HInv, NEW e \in Entities, NEW s \in Stations, Remove(s, e)
    PROVE  HInv'
<1>1. TypeOK'
  BY DEF HInv, TypeOK, Remove, history
<1>2. \A x \in Entities \ {e} : Untouched(x)
  BY DEF HInv, TypeOK, Remove, Untouched
<1>3. /\ transfer' = transfer /\ ~Owns(s, e)' /\ ~IsGhost(s, e)'
      /\ \A x \in Stations \ {s} : copy'[x][e] = copy[x][e]
  BY Values DEF HInv, TypeOK, Remove, Owns, Holds, IsGhost
<1>4. Owners(e)' = Owners(e) \ {s}
  BY <1>3 DEF Owners, Owns
<1>5. \A x \in Stations : IsGhost(x, e)' => IsGhost(x, e) /\ copy'[x][e] = copy[x][e]
  BY <1>3 DEF IsGhost, Holds, Owns
<1>6. RolesMatchPhase(e)'
  BY <1>3, <1>4, <1>5 DEF HInv, TypeOK, RolesMatchPhase, NoTransfer, Transfer
<1>7. NoCycle(e)'
  BY <1>3, <1>5, PointAtRoot DEF HInv
<1> QED BY <1>1, <1>2, <1>6, <1>7, UntouchedHolds DEF HInv

\* upsert_ghost by the rule points a ghost at a holder, which is no ghost.
LEMMA RefreshGhostHolds ==
    ASSUME HInv, NEW e \in Entities, NEW o \in Stations, NEW s \in Stations,
           RefreshGhost(o, s, e)
    PROVE  HInv'
<1>0. Owns(o, e) /\ o \in Owners(e) /\ ~Owns(s, e) /\ o # s /\ copy[o][e] \in Copy
      /\ (transfer[e].phase = "switched" => o # transfer[e].source)
  BY Values DEF HInv, TypeOK, RefreshGhost, Holders, Owners, Owns
<1>1. TypeOK'
  BY <1>0 DEF HInv, TypeOK, RefreshGhost, history, Ghost, Copy
<1>2. \A x \in Entities \ {e} : Untouched(x)
  BY DEF HInv, TypeOK, RefreshGhost, Untouched
<1>3. /\ transfer' = transfer
      /\ copy'[s][e].owned = FALSE /\ copy'[s][e].owner = o
      /\ \A x \in Stations \ {s} : copy'[x][e] = copy[x][e]
  BY DEF HInv, TypeOK, RefreshGhost, Ghost
<1>4. Owners(e)' = Owners(e)
  BY <1>0, <1>3 DEF Owners, Owns
<1>5. ~IsGhost(o, e)' /\ \A x \in Stations \ {s} : IsGhost(x, e)' = IsGhost(x, e)
  BY <1>0, <1>3 DEF IsGhost, Holds, Owns
<1>6. RolesMatchPhase(e)'
  BY <1>0, <1>3, <1>4, <1>5 DEF HInv, TypeOK, RolesMatchPhase, NoTransfer, Transfer
<1>7. NoCycle(e)'
  BY <1>3, <1>5, PointAtRoot DEF HInv
<1> QED BY <1>1, <1>2, <1>6, <1>7, UntouchedHolds DEF HInv

\* next_owner_epoch keeps the epochs of the stations typed.
LEMMA ReserveType ==
    ASSUME HInv, NEW t \in Stations, Reserve(t)
    PROVE  /\ owner_epoch' \in [Stations -> Epochs]
           /\ NextEpoch(t) \in Epochs
BY DEF HInv, TypeOK, Reserve

\* prepare_outgoing_handoff opens a handoff at the owner and changes no record.
LEMMA PrepareHolds ==
    ASSUME HInv, NEW e \in Entities, NEW s \in Stations, NEW t \in Stations,
           PrepareOutgoingHandoff(e, s, t)
    PROVE  HInv'
<1>0. /\ transfer[e].phase = "none" /\ s # t /\ Owns(s, e) /\ copy[s][e] \in Copy
      /\ copy' = copy
  BY Values DEF HInv, TypeOK, PrepareOutgoingHandoff, Open, Owns
<1>1. TypeOK'
  <2>1. transfer' \in [Entities -> Transfer \cup {NoTransfer}]
    BY <1>0, ReserveType DEF HInv, TypeOK, PrepareOutgoingHandoff, Transfer, Copy
  <2> QED BY <1>0, <2>1, ReserveType DEF HInv, TypeOK, PrepareOutgoingHandoff, history
<1>2. \A x \in Entities \ {e} : Untouched(x)
  BY <1>0 DEF HInv, TypeOK, PrepareOutgoingHandoff, Untouched
<1>3. transfer'[e].phase = "prepared" /\ transfer'[e].source = s /\ transfer'[e].target = t
  BY DEF HInv, TypeOK, PrepareOutgoingHandoff
<1>4. RolesMatchPhase(e)'
  BY <1>0, <1>3 DEF HInv, RolesMatchPhase, Owners, Owns, IsGhost, Holds
<1>5. NoCycle(e)'
  BY <1>0 DEF HInv, NoCycle, Holds, Owns
<1> QED BY <1>1, <1>2, <1>4, <1>5, UntouchedHolds DEF HInv

\* prewarm_handoff_ghost points a ghost at the source, which is no ghost then.
LEMMA PrewarmHolds ==
    ASSUME HInv, NEW e \in Entities, PrewarmHandoffGhost(e)
    PROVE  HInv'
<1> DEFINE x == transfer[e]
<1>0. /\ x \in Transfer /\ x.phase = "prepared" /\ x.source # x.target
      /\ x.source \in Stations /\ x.target \in Stations
      /\ Owners(e) \subseteq {x.source} /\ ~IsGhost(x.source, e)
  BY Values DEF HInv, TypeOK, PrewarmHandoffGhost, RolesMatchPhase, NoTransfer, Transfer
<1>1. /\ transfer' = transfer
      /\ copy'[x.target][e] = Ghost(x.source, x.sourceEpoch, x.version)
      /\ \A y \in Stations \ {x.target} : copy'[y][e] = copy[y][e]
  BY <1>0 DEF HInv, TypeOK, PrewarmHandoffGhost
<1>2. TypeOK'
  <2>1. Ghost(x.source, x.sourceEpoch, x.version) \in Copy
    BY <1>0 DEF Transfer, Ghost, Copy
  <2> QED BY <1>0, <2>1 DEF HInv, TypeOK, PrewarmHandoffGhost, history
<1>3. \A y \in Entities \ {e} : Untouched(y)
  BY <1>0 DEF HInv, TypeOK, PrewarmHandoffGhost, Untouched
<1>4. Owners(e)' \subseteq {x.source}
  BY <1>0, <1>1 DEF Owners, Owns, Ghost
<1>5. ~IsGhost(x.source, e)'
  BY <1>0, <1>1 DEF IsGhost, Owns, Holds
<1>6. RolesMatchPhase(e)'
  BY <1>0, <1>1, <1>4, <1>5 DEF RolesMatchPhase
<1>7. NoCycle(e)'
  BY <1>0, <1>1, <1>5, PointAtRoot DEF HInv, IsGhost, Holds, Owns, Ghost
<1> QED BY <1>2, <1>3, <1>6, <1>7, UntouchedHolds DEF HInv

\* commit_incoming_handoff adds the target to the owners: no new ghost.
LEMMA CommitIncomingHolds ==
    ASSUME HInv, NEW e \in Entities, CommitIncomingHandoff(e)
    PROVE  HInv'
<1> DEFINE x == transfer[e]
<1>0. /\ x \in Transfer /\ x.phase = "prepared" /\ x.source # x.target
      /\ x.source \in Stations /\ x.target \in Stations
      /\ Owners(e) \subseteq {x.source} /\ ~IsGhost(x.source, e)
  BY Values DEF HInv, TypeOK, CommitIncomingHandoff, RolesMatchPhase, NoTransfer, Transfer
<1>1. /\ transfer'[e].phase = "switched"
      /\ transfer'[e].source = x.source /\ transfer'[e].target = x.target
      /\ copy'[x.target][e] = Owned(x.target, x.targetEpoch, x.version)
      /\ \A y \in Stations \ {x.target} : copy'[y][e] = copy[y][e]
  BY <1>0 DEF HInv, TypeOK, CommitIncomingHandoff, Transfer
<1>2. TypeOK'
  <2>1. Owned(x.target, x.targetEpoch, x.version) \in Copy /\ x.targetEpoch \in Epochs
    BY <1>0 DEF Transfer, Owned, Copy
  <2>2. [x EXCEPT !.phase = "switched"] \in Transfer
    BY <1>0 DEF Transfer
  <2>3. copy' \in [Stations -> [Entities -> Copy \cup {Absent}]]
    BY <1>0, <2>1 DEF HInv, TypeOK, CommitIncomingHandoff
  <2>4. transfer' \in [Entities -> Transfer \cup {NoTransfer}]
    BY <2>2 DEF HInv, TypeOK, CommitIncomingHandoff
  <2>5. lost' \in [Entities -> Nat] /\ late' \in [Entities -> Nat]
    BY DEF HInv, TypeOK, CommitIncomingHandoff
  <2>6. owner_epoch' \in [Stations -> Epochs]
    BY <2>1 DEF HInv, TypeOK, CommitIncomingHandoff
  <2> QED BY <2>3, <2>4, <2>5, <2>6 DEF HInv, TypeOK, CommitIncomingHandoff
<1>3. \A y \in Entities \ {e} : Untouched(y)
  BY <1>0 DEF HInv, TypeOK, CommitIncomingHandoff, Untouched
<1>4. Owners(e)' \subseteq {x.source, x.target}
  BY <1>0, <1>1 DEF Owners, Owns
<1>5. ~IsGhost(x.target, e)'
  BY <1>0, <1>1 DEF IsGhost, Owns, Owned
<1>6. RolesMatchPhase(e)'
  BY <1>0, <1>1, <1>4, <1>5 DEF RolesMatchPhase
<1>7. NoCycle(e)'
  <2>1. \A y \in Stations : IsGhost(y, e)' => IsGhost(y, e) /\ copy'[y][e] = copy[y][e]
    BY <1>1, <1>5 DEF IsGhost, Holds, Owns
  <2> QED BY <1>0, <1>5, <2>1, PointAtRoot DEF HInv
<1> QED BY <1>2, <1>3, <1>6, <1>7, UntouchedHolds DEF HInv

\* commit_outgoing_handoff points a ghost at the target, which is no ghost then.
LEMMA CommitOutgoingHolds ==
    ASSUME HInv, NEW e \in Entities, CommitOutgoingHandoff(e)
    PROVE  HInv'
<1>x. PICK x : x = transfer[e] OBVIOUS
<1>0. /\ x \in Transfer /\ x.phase = "switched" /\ x.source # x.target
      /\ x.source \in Stations /\ x.target \in Stations
      /\ Owners(e) \subseteq {x.source, x.target} /\ ~IsGhost(x.target, e)
  BY <1>x, Values DEF HInv, TypeOK, CommitOutgoingHandoff, RolesMatchPhase, NoTransfer, Transfer
<1>1. transfer' = [transfer EXCEPT ![e] = NoTransfer] /\ transfer'[e] = NoTransfer
  BY DEF HInv, TypeOK, CommitOutgoingHandoff
<1>2. CASE Owns(x.source, e)
  <2>0. copy[x.source][e] \in Copy
    BY <1>0, <1>2, Values DEF HInv, TypeOK, Owns
  <2>1. /\ copy' = [copy EXCEPT ![x.source][e] =
                       Ghost(x.target, x.targetEpoch, copy[x.source][e].version)]
        /\ copy'[x.source][e] =
              Ghost(x.target, x.targetEpoch, copy[x.source][e].version)
        /\ \A y \in Stations \ {x.source} : copy'[y][e] = copy[y][e]
    BY <1>x, <1>0, <1>2 DEF HInv, TypeOK, CommitOutgoingHandoff
  <2>2. TypeOK'
    <3>1. Ghost(x.target, x.targetEpoch, copy[x.source][e].version) \in Copy
      BY <1>0, <2>0 DEF Transfer, Ghost, Copy
    <3>2. copy' \in [Stations -> [Entities -> Copy \cup {Absent}]]
      BY <1>0, <2>1, <3>1 DEF HInv, TypeOK
    <3> QED BY <1>1, <3>2 DEF HInv, TypeOK, CommitOutgoingHandoff, history
  <2>3. \A y \in Entities \ {e} : Untouched(y)
    BY <1>0, <1>1, <2>1 DEF HInv, TypeOK, Untouched
  <2>4. Owners(e)' \subseteq {x.target}
    BY <1>0, <2>1 DEF Owners, Owns, Ghost
  <2>5. RolesMatchPhase(e)'
    BY <1>1, <2>4, Values DEF RolesMatchPhase
  <2>6. NoCycle(e)'
    <3>1. ~IsGhost(x.target, e)'
      BY <1>0, <2>1 DEF IsGhost, Holds, Owns
    <3>2. \A y \in Stations : IsGhost(y, e)' =>
             \/ copy'[y][e].owner = x.target
             \/ IsGhost(y, e) /\ copy'[y][e].owner = copy[y][e].owner
      BY <2>1 DEF IsGhost, Holds, Owns, Ghost
    <3> QED BY <1>0, <3>1, <3>2, PointAtRoot DEF HInv
  <2> QED BY <2>2, <2>3, <2>5, <2>6, UntouchedHolds DEF HInv
<1>3. CASE ~Owns(x.source, e)
  <2>1. copy' = copy
    BY <1>x, <1>3 DEF CommitOutgoingHandoff
  <2>2. TypeOK'
    BY <1>1, <2>1 DEF HInv, TypeOK, CommitOutgoingHandoff, history
  <2>3. \A y \in Entities \ {e} : Untouched(y)
    BY <1>1, <2>1 DEF HInv, TypeOK, Untouched
  <2>4. Owners(e)' \subseteq {x.target}
    BY <1>0, <1>3, <2>1 DEF Owners, Owns
  <2>5. RolesMatchPhase(e)'
    BY <1>1, <2>4, Values DEF RolesMatchPhase
  <2>6. NoCycle(e)'
    BY <2>1 DEF HInv, NoCycle, Holds, Owns
  <2> QED BY <2>2, <2>3, <2>5, <2>6, UntouchedHolds DEF HInv
<1> QED BY <1>2, <1>3

\* Giving up a prepared handoff leaves the source, or nobody, as owner.
LEMMA AbandonHolds ==
    ASSUME HInv, NEW e \in Entities, Abandon(e)
    PROVE  HInv'
<1>0. transfer' = [transfer EXCEPT ![e] = NoTransfer] /\ copy' = copy
  BY DEF Abandon
<1>1. TypeOK'
  BY <1>0 DEF HInv, TypeOK, Abandon
<1>2. \A x \in Entities \ {e} : Untouched(x)
  BY <1>0 DEF HInv, TypeOK, Untouched
<1>3. transfer'[e] = NoTransfer /\ Owners(e)' \subseteq {transfer[e].source}
  BY <1>0 DEF HInv, TypeOK, RolesMatchPhase, Abandon, Owners, Owns
<1>4. RolesMatchPhase(e)'
  BY <1>3, Values DEF RolesMatchPhase
<1>5. NoCycle(e)'
  BY <1>0 DEF HInv, NoCycle, Holds, Owns
<1> QED BY <1>1, <1>2, <1>4, <1>5, UntouchedHolds DEF HInv

\* migrate_entity turns the owner into a ghost of the new owner.
LEMMA MigrateHolds ==
    ASSUME HInv, NEW e \in Entities, NEW s \in Stations, NEW t \in Stations,
           MigrateEntity(e, s, t)
    PROVE  HInv'
<1>0. /\ transfer' = transfer /\ transfer[e] = NoTransfer /\ s # t
      /\ \A y, z \in Owners(e) : y = z
  BY Values DEF HInv, TypeOK, MigrateEntity, Open, RolesMatchPhase
<1>1. CASE Owns(s, e)
  <2>0. copy[s][e] \in Copy /\ Owners(e) = {s}
    BY <1>0, <1>1, Values DEF HInv, TypeOK, Owns, Owners
  <2> DEFINE a == Owned(t, NextEpoch(t), copy[s][e].version)
             b == Ghost(t, NextEpoch(t), copy[s][e].version)
  <2>1. a \in Copy /\ b \in Copy
    BY <2>0, ReserveType DEF MigrateEntity, Owned, Ghost, Copy
  <2>2. copy' = [copy EXCEPT ![t][e] = a, ![s][e] = b]
    BY <1>1 DEF MigrateEntity
  <2>3. /\ copy'[t][e] = a /\ copy'[s][e] = b
        /\ \A y \in Stations \ {s, t} : copy'[y][e] = copy[y][e]
        /\ \A x \in Entities \ {e}, y \in Stations : copy'[y][x] = copy[y][x]
    BY <1>0, <2>2 DEF HInv, TypeOK
  <2>4. copy' \in [Stations -> [Entities -> Copy \cup {Absent}]]
    BY <1>0, <2>1, <2>2 DEF HInv, TypeOK
  <2>5. a.owned = TRUE /\ b.owned = FALSE /\ b.owner = t
    BY DEF Owned, Ghost
  <2> HIDE DEF a, b
  <2>6. TypeOK'
    BY <1>0, <2>4, ReserveType DEF HInv, TypeOK, MigrateEntity, history
  <2>7. \A x \in Entities \ {e} : Untouched(x)
    BY <1>0, <2>3 DEF Untouched
  <2>8. Owners(e)' = {t} /\ ~IsGhost(t, e)'
    BY <2>0, <2>3, <2>5 DEF Owners, Owns, IsGhost
  <2>9. RolesMatchPhase(e)'
    BY <1>0, <2>8, Values DEF RolesMatchPhase
  <2>10. NoCycle(e)'
    <3>1. \A y \in Stations : IsGhost(y, e)' =>
             \/ copy'[y][e].owner = t
             \/ IsGhost(y, e) /\ copy'[y][e].owner = copy[y][e].owner
      BY <2>3, <2>5 DEF IsGhost, Holds, Owns
    <3> QED BY <2>8, <3>1, PointAtRoot DEF HInv
  <2> QED BY <2>6, <2>7, <2>9, <2>10, UntouchedHolds DEF HInv
<1>2. CASE ~Owns(s, e)
  <2>1. copy' = copy BY <1>2 DEF MigrateEntity
  <2>2. TypeOK'
    BY <1>0, <2>1, ReserveType DEF HInv, TypeOK, MigrateEntity, history
  <2>3. \A x \in Entities : Untouched(x)
    BY <1>0, <2>1 DEF Untouched
  <2> QED BY <2>2, <2>3, UntouchedHolds DEF HInv
<1> QED BY <1>1, <1>2

\* Stations without records satisfy the invariant.
LEMMA InitHolds == Init => HInv
<1> SUFFICES ASSUME Init PROVE HInv OBVIOUS
<1>1. TypeOK
  <2>1. /\ copy \in [Stations -> [Entities -> Copy \cup {Absent}]]
        /\ owner_epoch \in [Stations -> Epochs]
        /\ transfer \in [Entities -> Transfer \cup {NoTransfer}]
    BY HandoffAssumption DEF Init, Epochs
  <2>2. /\ moves \in [Entities -> Nat] /\ late \in [Entities -> Nat]
        /\ lost \in [Entities -> Nat]
    BY DEF Init
  <2>3. refreshes \in SUBSET Refresh
    BY DEF Init
  <2> QED BY <2>1, <2>2, <2>3 DEF TypeOK
<1>2. ASSUME NEW e \in Entities PROVE RolesMatchPhase(e) /\ NoCycle(e)
  <2>1. transfer[e] = NoTransfer /\ \A s \in Stations : copy[s][e] = Absent
    BY DEF Init
  <2>2. Owners(e) = {} /\ \A s \in Stations : ~Holds(s, e)
    BY <2>1, Values DEF Owners, Owns, Holds
  <2>3. RolesMatchPhase(e)
    BY <2>1, <2>2, Values DEF RolesMatchPhase
  <2>4. NoCycle(e)
    BY <2>2 DEF NoCycle
  <2> QED BY <2>3, <2>4
<1> QED BY <1>1, <1>2 DEF HInv

\* Every step keeps the invariant, one lemma per action.
LEMMA NextHolds == HInv /\ [Next]_vars => HInv'
<1> SUFFICES ASSUME HInv, [Next]_vars PROVE HInv' OBVIOUS
<1>1. ASSUME NEW e \in Entities, NEW s \in Stations, SpawnOwned(s, e) PROVE HInv'
  BY <1>1, SpawnOwnedHolds
<1>2. ASSUME NEW e \in Entities, NEW s \in Stations, MoveOwned(s, e) PROVE HInv'
  BY <1>2, MoveOwnedHolds
<1>3. ASSUME NEW e \in Entities, NEW s \in Stations, Remove(s, e) PROVE HInv'
  BY <1>3, RemoveHolds
<1>4. ASSUME NEW e \in Entities, NEW s \in Stations, NEW t \in Stations,
             RefreshGhost(s, t, e)
      PROVE HInv'
  BY <1>4, RefreshGhostHolds
<1>5. ASSUME NEW e \in Entities, NEW s \in Stations, NEW t \in Stations,
             PrepareOutgoingHandoff(e, s, t)
      PROVE HInv'
  BY <1>5, PrepareHolds
<1>6. ASSUME NEW e \in Entities, NEW s \in Stations, NEW t \in Stations,
             MigrateEntity(e, s, t)
      PROVE HInv'
  BY <1>6, MigrateHolds
<1>7. ASSUME NEW e \in Entities, PrewarmHandoffGhost(e) PROVE HInv'
  BY <1>7, PrewarmHolds
<1>8. ASSUME NEW e \in Entities, CommitIncomingHandoff(e) PROVE HInv'
  BY <1>8, CommitIncomingHolds
<1>9. ASSUME NEW e \in Entities, CommitOutgoingHandoff(e) PROVE HInv'
  BY <1>9, CommitOutgoingHolds
<1>10. ASSUME NEW e \in Entities, Abandon(e) PROVE HInv'
  BY <1>10, AbandonHolds
<1>11. ASSUME UNCHANGED vars PROVE HInv'
  <2>1. TypeOK' BY <1>11 DEF HInv, TypeOK, vars
  <2>2. \A e \in Entities : Untouched(e) BY <1>11 DEF vars, Untouched
  <2> QED BY <2>1, <2>2, UntouchedHolds DEF HInv
<1> QED BY <1>1, <1>2, <1>3, <1>4, <1>5, <1>6, <1>7, <1>8, <1>9, <1>10, <1>11 DEF Next

\* The invariant holds throughout.
LEMMA Inductive == Spec => []HInv
BY InitHolds, NextHolds, PTL DEF Spec

-----------------------------------------------------------------------------
(* The results. *)

\* Roles and open handoffs keep their types.
THEOREM TypeCorrect == Spec => []TypeOK
<1>1. HInv => TypeOK BY DEF HInv
<1> QED BY <1>1, Inductive, PTL

\* Two owners exist only between commit_incoming_handoff and
\* commit_outgoing_handoff, at the two ends of that handoff.
THEOREM OwnerWindowHolds == Spec => []OwnerWindow
<1>1. HInv => OwnerWindow
  <2> SUFFICES ASSUME HInv, NEW e \in Entities, NEW s \in Owners(e), NEW t \in Owners(e),
                      s # t
               PROVE  /\ transfer[e] # NoTransfer /\ transfer[e].phase = "switched"
                      /\ {s, t} = {transfer[e].source, transfer[e].target}
    BY DEF OwnerWindow
  <2>1. transfer[e].phase \in {"none", "prepared", "switched"}
    BY Values DEF HInv, TypeOK
  <2>2. transfer[e].phase = "switched"
    BY <2>1 DEF HInv, RolesMatchPhase
  <2> QED BY <2>2, Values DEF HInv, RolesMatchPhase
<1> QED BY <1>1, Inductive, PTL

\* Following the owners that ghosts name always ends.
THEOREM NoForwardingCycleHolds == Spec => []NoForwardingCycle
<1>1. HInv => NoForwardingCycle BY DEF HInv, NoForwardingCycle, NoCycle
<1> QED BY <1>1, Inductive, PTL

-----------------------------------------------------------------------------
(* Refinement of EntityAuthority. *)

\* At most one station holds an entity.
HoldersOK ==
    \A e \in Entities :
        /\ Holders(e) \subseteq Stations
        /\ \A s, t \in Holders(e) : s = t

\* From the roles and the phase: at most one station counts as holder.
LEMMA HoldersAreOne == HInv => HoldersOK
<1> SUFFICES ASSUME HInv, NEW e \in Entities
             PROVE  Holders(e) \subseteq Stations /\ \A s, t \in Holders(e) : s = t
  BY DEF HoldersOK
<1>1. transfer[e].phase \in {"none", "prepared", "switched"}
  BY Values DEF HInv, TypeOK
<1> QED BY <1>1 DEF HInv, RolesMatchPhase, Holders, Owners

\* An entity a step leaves alone keeps its holders.
LEMMA UntouchedHolders ==
    ASSUME NEW e \in Entities, Untouched(e)
    PROVE  Holders(e)' = Holders(e)
BY DEF Untouched, Holders, Owners, Owns

\* A step that changes who holds one entity, from at most one station to at
\* most one station, is a step of EntityAuthority.
LEMMA AuthorityStep ==
    ASSUME HInv, HInv', NEW e \in Entities, \A x \in Entities \ {e} : Untouched(x)
    PROVE  [Authority!Next]_holding
<1>1. /\ Holders(e) \subseteq Stations /\ \A s, t \in Holders(e) : s = t
      /\ Holders(e)' \subseteq Stations /\ \A s, t \in Holders(e)' : s = t
  <2>1. HoldersOK' BY HoldersAreOne, PTL
  <2> QED BY <2>1, HoldersAreOne DEF HoldersOK
<1>2. \A x \in Entities \ {e} : Holders(x)' = Holders(x)
  BY UntouchedHolders
<1>3. holding' = [holding EXCEPT ![e] = Holders(e)']
  BY <1>2 DEF holding
<1>4. holding[e] = Holders(e)
  BY DEF holding
<1>5. CASE Holders(e)' = Holders(e)
  BY <1>3, <1>4, <1>5 DEF holding
<1>6. CASE Holders(e) = {} /\ Holders(e)' # {}
  <2>1. PICK s \in Stations : Holders(e)' = {s} BY <1>1, <1>6
  <2>2. Authority!Appear(e, s) BY <1>3, <1>4, <1>6, <2>1 DEF Authority!Appear
  <2> QED BY <2>2 DEF Authority!Next
<1>7. CASE Holders(e) # {} /\ Holders(e)' = {}
  <2>1. PICK s \in Stations : Holders(e) = {s} BY <1>1, <1>7
  <2>2. Authority!Vanish(e, s) BY <1>3, <1>4, <1>7, <2>1 DEF Authority!Vanish
  <2> QED BY <2>2 DEF Authority!Next
<1>8. CASE Holders(e) # {} /\ Holders(e)' # {}
  <2>1. PICK s \in Stations, t \in Stations : Holders(e) = {s} /\ Holders(e)' = {t}
    BY <1>1, <1>8
  <2>2. Authority!Hand(e, s, t) BY <1>3, <1>4, <2>1 DEF Authority!Hand
  <2> QED BY <2>2 DEF Authority!Next
<1> QED BY <1>5, <1>6, <1>7, <1>8

\* Every step concerns one entity; the others keep their copies and handoff.
LEMMA OneEntity ==
    ASSUME HInv, Next
    PROVE  \E e \in Entities : \A x \in Entities \ {e} : Untouched(x)
<1>1. ASSUME NEW e \in Entities, NEW s \in Stations,
             SpawnOwned(s, e) \/ MoveOwned(s, e) \/ Remove(s, e)
      PROVE  \A x \in Entities \ {e} : Untouched(x)
  <2>1. transfer' = transfer /\ \A x \in Entities \ {e}, y \in Stations : copy'[y][x] = copy[y][x]
    BY <1>1 DEF HInv, TypeOK, SpawnOwned, MoveOwned, Remove
  <2> QED BY <2>1 DEF Untouched
<1>2. ASSUME NEW e \in Entities, NEW s \in Stations, NEW t \in Stations,
             RefreshGhost(s, t, e) \/ PrepareOutgoingHandoff(e, s, t)
      PROVE  \A x \in Entities \ {e} : Untouched(x)
  BY <1>2 DEF HInv, TypeOK, RefreshGhost, PrepareOutgoingHandoff, Untouched
<1>3. ASSUME NEW e \in Entities, NEW s \in Stations, NEW t \in Stations,
             MigrateEntity(e, s, t)
      PROVE  \A x \in Entities \ {e} : Untouched(x)
  BY <1>3 DEF HInv, TypeOK, MigrateEntity, Untouched
<1>4. ASSUME NEW e \in Entities, PrewarmHandoffGhost(e) \/ CommitIncomingHandoff(e)
      PROVE  \A x \in Entities \ {e} : Untouched(x)
  BY <1>4 DEF HInv, TypeOK, PrewarmHandoffGhost, CommitIncomingHandoff, Untouched
<1>5. ASSUME NEW e \in Entities, CommitOutgoingHandoff(e) \/ Abandon(e)
      PROVE  \A x \in Entities \ {e} : Untouched(x)
  BY <1>5 DEF HInv, TypeOK, CommitOutgoingHandoff, Abandon, Untouched
<1> QED BY <1>1, <1>2, <1>3, <1>4, <1>5 DEF Next

\* Whatever is interleaved with the calls of a handoff, authority is held once
\* and moves in one step.
THEOREM SingleAuthorityHolds == Spec => SingleAuthority
<1>1. Init => Authority!Init
  <2> SUFFICES ASSUME Init PROVE Authority!Init OBVIOUS
  <2>1. ASSUME NEW e \in Entities PROVE Holders(e) = {}
    BY Values DEF Init, Holders, Owners, Owns
  <2> QED BY <2>1 DEF Authority!Init, holding
<1>2. HInv /\ HInv' /\ [Next]_vars => [Authority!Next]_holding
  <2> SUFFICES ASSUME HInv, HInv', [Next]_vars
               PROVE  [Authority!Next]_holding
    OBVIOUS
  <2>1. CASE Next
    <3>1. PICK e \in Entities : \A x \in Entities \ {e} : Untouched(x)
      BY <2>1, OneEntity
    <3> QED BY <3>1, AuthorityStep
  <2>2. CASE UNCHANGED vars
    <3>1. \A x \in Entities : Holders(x)' = Holders(x)
      BY <2>2 DEF vars, Holders, Owners, Owns
    <3> QED BY <3>1 DEF holding
  <2> QED BY <2>1, <2>2
<1> QED BY <1>1, <1>2, Inductive, PTL DEF Spec, SingleAuthority, Authority!Spec

\* The last authority over an entity is never turned into a ghost.
THEOREM OwnerDemotedForOwnerHolds == Spec => OwnerDemotedForOwner
<1>1. ASSUME HInv, Next, NEW e \in Entities, NEW s \in Stations,
             Owns(s, e), Holds(s, e)', ~Owns(s, e)'
      PROVE  Owners(e)' # {} \/ IsSource(s, e, "switched")
  <2>1. ASSUME NEW x \in Stations, NEW d \in Entities,
               SpawnOwned(x, d) \/ MoveOwned(x, d) \/ Remove(x, d)
        PROVE  Owners(e)' # {}
    <3>1. copy[s][e] \in Copy BY <1>1, Values DEF HInv, TypeOK, Owns
    <3>2. CASE SpawnOwned(x, d)
      BY <1>1, <3>2 DEF HInv, TypeOK, SpawnOwned, Owned, Owns
    <3>3. CASE MoveOwned(x, d)
      <4>1. copy'[s][e].owned = copy[s][e].owned
        BY <3>1, <3>3 DEF HInv, TypeOK, MoveOwned, Copy
      <4> QED BY <4>1, <1>1 DEF Owns
    <3>4. CASE Remove(x, d)
      BY <1>1, <3>4 DEF HInv, TypeOK, Remove, Holds, Owns
    <3> QED BY <2>1, <3>2, <3>3, <3>4
  <2>2. ASSUME NEW o \in Stations, NEW x \in Stations, NEW d \in Entities,
               RefreshGhost(o, x, d) \/ PrepareOutgoingHandoff(d, o, x)
        PROVE  FALSE
    BY <1>1, <2>2 DEF HInv, TypeOK, RefreshGhost, PrepareOutgoingHandoff, Owns
  <2>3. ASSUME NEW x \in Stations, NEW t \in Stations, NEW d \in Entities,
               MigrateEntity(d, x, t)
        PROVE  Owners(e)' # {}
    <3>1. CASE Owns(x, d)
      <4> DEFINE a == Owned(t, NextEpoch(t), copy[x][d].version)
                 b == Ghost(t, NextEpoch(t), copy[x][d].version)
      <4>1. copy' = [copy EXCEPT ![t][d] = a, ![x][d] = b] /\ x # t
        BY <2>3, <3>1 DEF MigrateEntity
      <4>2. a.owned = TRUE BY DEF Owned
      <4> HIDE DEF a, b
      <4>3. d = e
        BY <1>1, <4>1 DEF HInv, TypeOK, Owns
      <4>4. copy'[t][e] = a
        BY <1>1, <4>1, <4>3 DEF HInv, TypeOK
      <4>5. t \in Owners(e)'
        BY <4>2, <4>4 DEF Owners, Owns
      <4> QED BY <4>5
    <3>2. CASE ~Owns(x, d)
      BY <1>1, <2>3, <3>2 DEF MigrateEntity, Owns
    <3> QED BY <3>1, <3>2
  <2>4. ASSUME NEW d \in Entities, PrewarmHandoffGhost(d)
        PROVE  FALSE
    <3>1. /\ Owners(d) \subseteq {transfer[d].source}
          /\ transfer[d].source # transfer[d].target
      <4>1. transfer[d].phase = "prepared" BY <2>4 DEF PrewarmHandoffGhost
      <4>2. transfer[d] # NoTransfer BY <4>1, Values
      <4> QED BY <1>1, <4>1, <4>2 DEF HInv, RolesMatchPhase
    <3>2. ~Owns(transfer[d].target, d) \/ transfer[d].target \notin Stations
      BY <3>1 DEF Owners
    <3> QED BY <1>1, <2>4, <3>2 DEF HInv, TypeOK, PrewarmHandoffGhost, Owns
  <2>5. ASSUME NEW d \in Entities, CommitIncomingHandoff(d)
        PROVE  FALSE
    BY <1>1, <2>5 DEF HInv, TypeOK, CommitIncomingHandoff, Owns, Owned
  <2>6. ASSUME NEW d \in Entities, CommitOutgoingHandoff(d)
        PROVE  IsSource(s, e, "switched")
    BY <1>1, <2>6 DEF HInv, TypeOK, CommitOutgoingHandoff, Owns, IsSource
  <2>7. ASSUME NEW d \in Entities, Abandon(d) PROVE FALSE
    BY <1>1, <2>7 DEF Abandon, Owns
  <2> QED BY <1>1, <2>1, <2>2, <2>3, <2>4, <2>5, <2>6, <2>7 DEF Next
<1>2. HInv /\ [Next]_vars =>
        \A e \in Entities, s \in Stations :
          Owns(s, e) /\ Holds(s, e)' /\ ~Owns(s, e)'
          => Owners(e)' # {} \/ IsSource(s, e, "switched")
  <2>1. ASSUME UNCHANGED vars, NEW e \in Entities, NEW s \in Stations
        PROVE  Owns(s, e)' = Owns(s, e)
    BY <2>1 DEF vars, Owns
  <2> QED BY <1>1, <2>1
<1> QED BY <1>2, Inductive, PTL DEF Spec, OwnerDemotedForOwner

-----------------------------------------------------------------------------
(* The moves of an entity. *)

\* The holder, and the state an open handoff captured, are short of exactly the
\* moves that history counts as lost or late.
MovesMatch(e) ==
    /\ transfer[e].phase # "prepared" => late[e] = 0
    /\ transfer[e].phase = "prepared" => transfer[e].version + late[e] + lost[e] = moves[e]
    /\ \A s \in Holders(e) : copy[s][e].version + lost[e] = moves[e]

MInv == \A e \in Entities : MovesMatch(e)

\* The moves of e are counted as before.
Unmoved(e) == moves'[e] = moves[e] /\ late'[e] = late[e] /\ lost'[e] = lost[e]

\* An entity a step leaves alone keeps its account.
LEMMA UntouchedMatches ==
    ASSUME NEW e \in Entities, MovesMatch(e), Untouched(e), Unmoved(e)
    PROVE  MovesMatch(e)'
<1>1. Holders(e)' = Holders(e) BY UntouchedHolders
<1>2. Holders(e) \subseteq Stations BY DEF Holders, Owners
<1> QED BY <1>1, <1>2 DEF MovesMatch, Untouched, Unmoved

\* So does one that gains no holder and whose holders keep their versions.
LEMMA HoldersMatch ==
    ASSUME NEW e \in Entities, MovesMatch(e), Unmoved(e), transfer'[e] = transfer[e],
           \A s \in Holders(e)' : s \in Holders(e) /\ copy'[s][e].version = copy[s][e].version
    PROVE  MovesMatch(e)'
BY DEF MovesMatch, Unmoved

\* What the roles say of the owners of an entity in each phase.
LEMMA HolderPhases ==
    ASSUME HInv, NEW e \in Entities
    PROVE  /\ transfer[e].phase \in {"none", "prepared", "switched"}
           /\ transfer[e].phase = "none" <=> transfer[e] = NoTransfer
           /\ transfer[e].phase = "prepared" => Holders(e) \subseteq {transfer[e].source}
           /\ transfer[e].phase = "switched" => Holders(e) \subseteq {transfer[e].target}
<1>1. /\ transfer[e].phase \in {"none", "prepared", "switched"}
      /\ transfer[e].phase = "none" <=> transfer[e] = NoTransfer
  BY Values DEF HInv, TypeOK
<1> QED BY <1>1 DEF HInv, RolesMatchPhase, Holders

\* A spawn opens a new account.
LEMMA SpawnOwnedMatches ==
    ASSUME HInv, MInv, NEW e \in Entities, NEW s \in Stations, SpawnOwned(s, e)
    PROVE  MovesMatch(e)'
<1>1. transfer'[e] = NoTransfer /\ NoTransfer.phase = "none"
  BY Values DEF SpawnOwned, Open
<1>2. late'[e] = 0 /\ lost'[e] = 0 /\ moves'[e] = 0
  BY DEF HInv, TypeOK, SpawnOwned
<1>3. copy'[s][e].version = 0 /\ \A x \in Stations \ {s} : copy'[x][e] = copy[x][e]
  BY DEF HInv, TypeOK, SpawnOwned, Owned
<1>4. Holders(e)' \subseteq {s}
  BY <1>1, <1>3 DEF SpawnOwned, Holders, Owners, Owns
<1> QED BY <1>1, <1>2, <1>3, <1>4 DEF MovesMatch

\* A move counts at the holder, or else as late or lost.
LEMMA MoveOwnedMatches ==
    ASSUME HInv, MInv, NEW e \in Entities, NEW s \in Stations, MoveOwned(s, e)
    PROVE  MovesMatch(e)'
<1>0. copy[s][e] \in Copy /\ s \in Owners(e)
  BY Values DEF HInv, TypeOK, MoveOwned, Owns, Owners
<1>1. /\ transfer'[e] = transfer[e]
      /\ moves'[e] = moves[e] + 1
      /\ late'[e] = IF IsSource(s, e, "prepared") THEN late[e] + 1 ELSE late[e]
      /\ lost'[e] = IF IsSource(s, e, "switched") THEN lost[e] + 1 ELSE lost[e]
      /\ copy'[s][e] = [copy[s][e] EXCEPT !.version = @ + 1]
      /\ \A x \in Stations \ {s} : copy'[x][e] = copy[x][e]
  BY DEF HInv, TypeOK, MoveOwned
<1>2. copy'[s][e].version = copy[s][e].version + 1 /\ copy'[s][e].owned = copy[s][e].owned
  BY <1>0, <1>1 DEF Copy
<1>3. Holders(e)' = Holders(e)
  BY <1>1, <1>2 DEF Holders, Owners, Owns
<1>4. /\ moves[e] \in Nat /\ late[e] \in Nat /\ lost[e] \in Nat
      /\ copy[s][e].version \in Nat /\ MovesMatch(e)
  BY <1>0 DEF HInv, TypeOK, Copy, MInv
<1>a. ASSUME Holders(e) \subseteq {s}, lost'[e] = lost[e]
      PROVE  \A x \in Holders(e)' : copy'[x][e].version + lost'[e] = moves'[e]
  <2> SUFFICES ASSUME s \in Holders(e)
               PROVE  copy'[s][e].version + lost'[e] = moves'[e]
    BY <1>3, <1>a
  <2>1. copy[s][e].version + lost[e] = moves[e]
    BY <1>4 DEF MovesMatch
  <2>2. copy[s][e].version + 1 + lost[e] = moves[e] + 1
    BY <1>4, <2>1
  <2> QED BY <1>1, <1>2, <1>a, <2>2
<1>5. CASE transfer[e].phase = "none"
  <2>1. Holders(e) \subseteq {s}
    BY <1>0, <1>5 DEF HInv, RolesMatchPhase, Holders
  <2>2. late'[e] = late[e] /\ lost'[e] = lost[e]
    BY <1>1, <1>5 DEF IsSource
  <2> QED BY <1>1, <1>4, <1>5, <1>a, <2>1, <2>2 DEF MovesMatch
<1>6. CASE transfer[e].phase = "prepared"
  <2>1. s = transfer[e].source
    BY <1>0, <1>6 DEF HInv, RolesMatchPhase
  <2>2. late'[e] = late[e] + 1 /\ lost'[e] = lost[e] /\ Holders(e) \subseteq {s}
    BY <1>1, <1>6, <2>1, HolderPhases DEF IsSource
  <2>3. transfer[e].version \in Nat
    BY <1>6, Values DEF HInv, TypeOK, Transfer
  <2>4. transfer[e].version + (late[e] + 1) + lost[e] = moves[e] + 1
    <3>1. transfer[e].version + late[e] + lost[e] = moves[e]
      BY <1>4, <1>6 DEF MovesMatch
    <3> QED BY <1>4, <2>3, <3>1
  <2>5. transfer'[e].version + late'[e] + lost'[e] = moves'[e]
    BY <1>1, <2>2, <2>4
  <2> QED BY <1>1, <1>6, <1>a, <2>2, <2>5 DEF MovesMatch
<1>7. CASE transfer[e].phase = "switched"
  <2>1. transfer[e] # NoTransfer
    BY <1>7, Values
  <2>2. Holders(e) \subseteq {transfer[e].target} /\ transfer[e].source # transfer[e].target
    BY <1>7, <2>1, HolderPhases DEF HInv, RolesMatchPhase
  <2>3. CASE s = transfer[e].source
    <3>1. lost'[e] = lost[e] + 1 /\ late'[e] = late[e] /\ s \notin Holders(e)
      BY <1>1, <1>7, <2>2, <2>3 DEF IsSource
    <3>2. \A x \in Holders(e) : copy'[x][e] = copy[x][e] /\ copy[x][e].version \in Nat
      <4>1. \A x \in Holders(e) : x \in Stations /\ Owns(x, e) /\ x # s
        BY <3>1 DEF Holders, Owners
      <4>2. \A x \in Holders(e) : copy[x][e] \in Copy
        BY <4>1, Values DEF HInv, TypeOK, Owns
      <4> QED BY <1>1, <4>1, <4>2 DEF Copy
    <3> QED BY <1>1, <1>3, <1>4, <1>7, <3>1, <3>2 DEF MovesMatch
  <2>4. CASE s # transfer[e].source
    <3>1. lost'[e] = lost[e] /\ late'[e] = late[e] /\ Holders(e) \subseteq {s}
      <4>1. s = transfer[e].target
        BY <1>0, <1>7, <2>4 DEF HInv, RolesMatchPhase
      <4> QED BY <1>1, <1>7, <2>2, <2>4, <4>1 DEF IsSource
    <3> QED BY <1>1, <1>4, <1>7, <1>a, <3>1 DEF MovesMatch
  <2> QED BY <2>3, <2>4
<1> QED BY <1>5, <1>6, <1>7, HolderPhases

\* Removing a record takes at most a holder away.
LEMMA RemoveMatches ==
    ASSUME HInv, MInv, NEW e \in Entities, NEW s \in Stations, Remove(s, e)
    PROVE  MovesMatch(e)'
<1>1. /\ transfer' = transfer /\ ~Owns(s, e)'
      /\ \A x \in Stations \ {s} : copy'[x][e] = copy[x][e]
  BY Values DEF HInv, TypeOK, Remove, Owns
<1>2. \A x \in Holders(e)' : x \in Holders(e) /\ copy'[x][e] = copy[x][e]
  BY <1>1 DEF Holders, Owners, Owns
<1> QED BY <1>1, <1>2, HoldersMatch DEF MInv, Remove, history, Unmoved

\* A refreshed ghost is no holder.
LEMMA RefreshGhostMatches ==
    ASSUME HInv, MInv, NEW e \in Entities, NEW o \in Stations, NEW s \in Stations,
           RefreshGhost(o, s, e)
    PROVE  MovesMatch(e)'
<1>1. /\ transfer' = transfer /\ ~Owns(s, e)'
      /\ \A x \in Stations \ {s} : copy'[x][e] = copy[x][e]
  BY DEF HInv, TypeOK, RefreshGhost, Ghost, Owns
<1>2. \A x \in Holders(e)' : x \in Holders(e) /\ copy'[x][e] = copy[x][e]
  BY <1>1 DEF Holders, Owners, Owns
<1> QED BY <1>1, <1>2, HoldersMatch DEF MInv, RefreshGhost, history, Unmoved

\* The captured state has seen what the owner has: nothing is late yet.
LEMMA PrepareMatches ==
    ASSUME HInv, MInv, NEW e \in Entities, NEW s \in Stations, NEW t \in Stations,
           PrepareOutgoingHandoff(e, s, t)
    PROVE  MovesMatch(e)'
<1>0. /\ transfer[e].phase = "none" /\ copy' = copy
      /\ s \in Owners(e) /\ copy[s][e] \in Copy
  BY Values DEF HInv, TypeOK, PrepareOutgoingHandoff, Open, Owns, Owners
<1>1. transfer'[e].phase = "prepared" /\ transfer'[e].version = copy[s][e].version
  BY DEF HInv, TypeOK, PrepareOutgoingHandoff
<1>2. Holders(e)' = Holders(e) /\ s \in Holders(e)
  BY <1>0, <1>1 DEF Holders, Owners, Owns
<1>3. /\ copy[s][e].version \in Nat /\ moves[e] \in Nat /\ late[e] = 0 /\ lost[e] \in Nat
      /\ \A x \in Holders(e) : copy[x][e].version + lost[e] = moves[e]
  BY <1>0 DEF HInv, TypeOK, Copy, MInv, MovesMatch
<1>4. Unmoved(e)
  BY DEF PrepareOutgoingHandoff, history, Unmoved
<1> QED BY <1>0, <1>1, <1>2, <1>3, <1>4 DEF MovesMatch, Unmoved

\* The prewarmed ghost is no holder.
LEMMA PrewarmMatches ==
    ASSUME HInv, MInv, NEW e \in Entities, PrewarmHandoffGhost(e)
    PROVE  MovesMatch(e)'
<1>1. transfer' = transfer /\ Unmoved(e)
  BY DEF PrewarmHandoffGhost, history, Unmoved
<1>2. \A x \in Stations : copy'[x][e] = copy[x][e] \/ ~Owns(x, e)'
  BY DEF HInv, TypeOK, PrewarmHandoffGhost, Ghost, Owns
<1>3. \A x \in Holders(e)' : x \in Holders(e) /\ copy'[x][e] = copy[x][e]
  BY <1>1, <1>2 DEF Holders, Owners, Owns
<1> QED BY <1>1, <1>3, HoldersMatch DEF MInv

\* The target takes over with the captured state; what came late is lost.
LEMMA CommitIncomingMatches ==
    ASSUME HInv, MInv, NEW e \in Entities, CommitIncomingHandoff(e)
    PROVE  MovesMatch(e)'
<1>x. PICK x : x = transfer[e] OBVIOUS
<1>0. /\ x \in Transfer /\ x.phase = "prepared" /\ x.source # x.target
      /\ x.target \in Stations /\ x.version \in Nat
      /\ Owners(e) \subseteq {x.source}
  BY <1>x, Values DEF HInv, TypeOK, CommitIncomingHandoff, RolesMatchPhase, NoTransfer, Transfer
<1>1. /\ transfer'[e].phase = "switched" /\ transfer'[e].source = x.source
      /\ copy'[x.target][e] = Owned(x.target, x.targetEpoch, x.version)
      /\ \A y \in Stations \ {x.target} : copy'[y][e] = copy[y][e]
  BY <1>x, <1>0 DEF HInv, TypeOK, CommitIncomingHandoff, Transfer
<1>2. Holders(e)' \subseteq {x.target}
  BY <1>0, <1>1 DEF Holders, Owners, Owns
<1>3. copy'[x.target][e].version = x.version
  BY <1>1 DEF Owned
<1>4. /\ moves[e] \in Nat /\ late[e] \in Nat /\ lost[e] \in Nat
      /\ x.version + late[e] + lost[e] = moves[e]
  BY <1>x, <1>0 DEF HInv, TypeOK, MInv, MovesMatch
<1>5. moves'[e] = moves[e] /\ late'[e] = 0 /\ lost'[e] = lost[e] + late[e]
  BY DEF HInv, TypeOK, CommitIncomingHandoff
<1>6. x.version + lost'[e] = moves'[e]
  BY <1>0, <1>4, <1>5
<1> QED BY <1>1, <1>2, <1>3, <1>5, <1>6 DEF MovesMatch

\* The source leaves the owners; it was no holder any more.
LEMMA CommitOutgoingMatches ==
    ASSUME HInv, MInv, NEW e \in Entities, CommitOutgoingHandoff(e)
    PROVE  MovesMatch(e)'
<1>x. PICK x : x = transfer[e] OBVIOUS
<1>0. x \in Transfer /\ x.phase = "switched" /\ x.source \in Stations
  BY <1>x, Values DEF HInv, TypeOK, CommitOutgoingHandoff, NoTransfer, Transfer
<1>1. transfer'[e] = NoTransfer /\ Unmoved(e)
  BY DEF HInv, TypeOK, CommitOutgoingHandoff, history, Unmoved
<1>2. /\ ~Owns(x.source, e)'
      /\ \A y \in Stations \ {x.source} : copy'[y][e] = copy[y][e]
  <2>1. CASE Owns(x.source, e)
    BY <1>x, <1>0, <2>1 DEF HInv, TypeOK, CommitOutgoingHandoff, Owns, Ghost
  <2>2. CASE ~Owns(x.source, e)
    BY <1>x, <2>2 DEF CommitOutgoingHandoff, Owns
  <2> QED BY <2>1, <2>2
<1>3. \A y \in Holders(e)' : y \in Holders(e) /\ copy'[y][e] = copy[y][e]
  BY <1>x, <1>0, <1>1, <1>2, Values DEF Holders, Owners, Owns
<1>4. late[e] = 0 /\ \A y \in Holders(e) : copy[y][e].version + lost[e] = moves[e]
  BY <1>x, <1>0 DEF MInv, MovesMatch
<1> QED BY <1>1, <1>3, <1>4, Values DEF MovesMatch, Unmoved

\* An abandoned handoff carried nothing over, so nothing was late for it.
LEMMA AbandonMatches ==
    ASSUME HInv, MInv, NEW e \in Entities, Abandon(e)
    PROVE  MovesMatch(e)'
<1>1. /\ transfer'[e] = NoTransfer /\ transfer[e].phase = "prepared"
      /\ late'[e] = 0 /\ copy' = copy /\ moves' = moves /\ lost' = lost
  BY DEF HInv, TypeOK, Abandon
<1>2. Holders(e)' = Holders(e)
  BY <1>1, Values DEF Holders, Owners, Owns
<1> QED BY <1>1, <1>2, Values DEF MInv, MovesMatch

\* migrate_entity hands the owner's state over whole.
LEMMA MigrateMatches ==
    ASSUME HInv, MInv, NEW e \in Entities, NEW s \in Stations, NEW t \in Stations,
           MigrateEntity(e, s, t)
    PROVE  MovesMatch(e)'
<1>0. /\ transfer' = transfer /\ transfer[e] = NoTransfer /\ s # t /\ Unmoved(e)
      /\ transfer[e].phase = "none" /\ Holders(e) = Owners(e)
      /\ \A y, z \in Owners(e) : y = z
  BY Values DEF HInv, MigrateEntity, Open, RolesMatchPhase, history, Unmoved, Holders
<1>1. CASE Owns(s, e)
  <2> DEFINE a == Owned(t, NextEpoch(t), copy[s][e].version)
             b == Ghost(t, NextEpoch(t), copy[s][e].version)
  <2>1. copy' = [copy EXCEPT ![t][e] = a, ![s][e] = b]
    BY <1>1 DEF MigrateEntity
  <2>2. a.version = copy[s][e].version /\ b.owned = FALSE
    BY DEF Owned, Ghost
  <2> HIDE DEF a, b
  <2>3. /\ copy'[t][e] = a /\ copy'[s][e] = b
        /\ \A y \in Stations \ {s, t} : copy'[y][e] = copy[y][e]
    BY <1>0, <2>1 DEF HInv, TypeOK
  <2>4. s \in Holders(e) /\ Owners(e) = {s}
    BY <1>0, <1>1 DEF Owners
  <2>5. Holders(e)' \subseteq {t}
    BY <1>0, <2>2, <2>3, <2>4 DEF Holders, Owners, Owns
  <2>6. late[e] = 0 /\ copy[s][e].version + lost[e] = moves[e]
    BY <1>0, <2>4 DEF MInv, MovesMatch
  <2> QED BY <1>0, <2>2, <2>3, <2>5, <2>6 DEF MovesMatch, Unmoved
<1>2. CASE ~Owns(s, e)
  <2>1. copy' = copy BY <1>2 DEF MigrateEntity
  <2>2. Holders(e)' = Holders(e)
    BY <1>0, <2>1 DEF Holders, Owners, Owns
  <2> QED BY <1>0, <2>1, <2>2, HoldersMatch DEF MInv
<1> QED BY <1>1, <1>2

\* Every step concerns one entity, and keeps the accounts of the others.
LEMMA MovesStep == HInv /\ MInv /\ [Next]_vars => MInv'
<1> SUFFICES ASSUME HInv, MInv, [Next]_vars PROVE MInv'
  OBVIOUS
<1> DEFINE Others(e) == \A x \in Entities \ {e} : Untouched(x) /\ Unmoved(x)
<1>0. ASSUME NEW e \in Entities, MovesMatch(e)', Others(e) PROVE MInv'
  BY <1>0, UntouchedMatches DEF MInv
<1>1. ASSUME NEW e \in Entities, NEW s \in Stations,
             SpawnOwned(s, e) \/ MoveOwned(s, e) \/ Remove(s, e)
      PROVE  MInv'
  <2>1. Others(e)
    <3>1. /\ transfer' = transfer
          /\ \A x \in Entities \ {e}, y \in Stations : copy'[y][x] = copy[y][x]
      BY <1>1 DEF HInv, TypeOK, SpawnOwned, MoveOwned, Remove
    <3>2. \A x \in Entities \ {e} : Unmoved(x)
      BY <1>1 DEF HInv, TypeOK, SpawnOwned, MoveOwned, Remove, history, Unmoved
    <3> QED BY <3>1, <3>2 DEF Untouched
  <2>2. MovesMatch(e)'
    BY <1>1, SpawnOwnedMatches, MoveOwnedMatches, RemoveMatches
  <2> QED BY <1>0, <2>1, <2>2
<1>2. ASSUME NEW e \in Entities, NEW s \in Stations, NEW t \in Stations,
             RefreshGhost(s, t, e) \/ PrepareOutgoingHandoff(e, s, t)
      PROVE  MInv'
  <2>1. Others(e)
    BY <1>2 DEF HInv, TypeOK, RefreshGhost, PrepareOutgoingHandoff, history, Untouched, Unmoved
  <2>2. MovesMatch(e)'
    BY <1>2, RefreshGhostMatches, PrepareMatches
  <2> QED BY <1>0, <2>1, <2>2
<1>3. ASSUME NEW e \in Entities, NEW s \in Stations, NEW t \in Stations,
             MigrateEntity(e, s, t)
      PROVE  MInv'
  <2>1. Others(e)
    BY <1>3 DEF HInv, TypeOK, MigrateEntity, history, Untouched, Unmoved
  <2> QED BY <1>0, <1>3, <2>1, MigrateMatches
<1>4. ASSUME NEW e \in Entities, PrewarmHandoffGhost(e) \/ CommitIncomingHandoff(e)
      PROVE  MInv'
  <2>1. Others(e)
    BY <1>4 DEF HInv, TypeOK, PrewarmHandoffGhost, CommitIncomingHandoff, history,
                Untouched, Unmoved
  <2>2. MovesMatch(e)'
    BY <1>4, PrewarmMatches, CommitIncomingMatches
  <2> QED BY <1>0, <2>1, <2>2
<1>5. ASSUME NEW e \in Entities, CommitOutgoingHandoff(e) \/ Abandon(e)
      PROVE  MInv'
  <2>1. Others(e)
    BY <1>5 DEF HInv, TypeOK, CommitOutgoingHandoff, Abandon, history, Untouched, Unmoved
  <2>2. MovesMatch(e)'
    BY <1>5, CommitOutgoingMatches, AbandonMatches
  <2> QED BY <1>0, <2>1, <2>2
<1>6. ASSUME UNCHANGED vars PROVE MInv'
  BY <1>6, UntouchedMatches DEF vars, MInv, Untouched, Unmoved
<1> HIDE DEF Others
<1> QED BY <1>1, <1>2, <1>3, <1>4, <1>5, <1>6 DEF Next

\* A handoff, and a migration, carry the entity's moves over exactly: the holder
\* has seen every move but the ones the source made after the capture.
THEOREM MovesAccountedHolds == Spec => []MovesAccounted
<1>1. Init => MInv
  <2> SUFFICES ASSUME Init, NEW e \in Entities PROVE MovesMatch(e)
    BY DEF MInv
  <2>1. transfer[e].phase = "none" /\ late[e] = 0 /\ \A s \in Stations : ~Owns(s, e)
    BY Values DEF Init, Owns
  <2> QED BY <2>1 DEF MovesMatch, Holders, Owners
<1>2. HInv /\ MInv => MovesAccounted
  BY DEF HInv, MInv, MovesMatch, MovesAccounted
<1> QED BY <1>1, <1>2, MovesStep, Inductive, PTL DEF Spec
=============================================================================
