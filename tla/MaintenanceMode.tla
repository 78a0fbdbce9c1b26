---------------------------- MODULE MaintenanceMode ----------------------------
(***************************************************************************)
(* MaintenanceService and MaintenanceGuard: the switch that closes the     *)
(* platform to everybody but a SUPERADMIN. It lives in two rows of         *)
(* system_config, read and written together and taken as one here, and is  *)
(* cached in Redis for thirty seconds. The guard runs before every route   *)
(* but the four exempt ones.                                               *)
(***************************************************************************)
EXTENDS Integers, RequestSlots

CONSTANT
  MaxUpdates   \* bound: updates of the switch

ASSUME MaintenanceAssumption == MaxUpdates \in Nat

VARIABLES
  mode,     \* system_config: MAINTENANCE_MODE
  cached,   \* system:maintenance:v1 in Redis
  visitor,  \* where each request stands with the guard
  updates   \* history: updates begun

gateVars == <<mode, cached, visitor, updates>>

Mode == {"ON", "OFF"}

\* Looking: on its way from the database to the cache. Inside: let through.
\* Writing, Publishing: an update before its commit, and between that and the
\* cache. saw is the state read; wants what an update asks for.
Place == {"Away", "Looking", "Inside", "Writing", "Publishing"}
Visitor == [at : Place, admin : BOOLEAN, saw : Mode, wants : Mode]

Away == [at |-> "Away", admin |-> FALSE, saw |-> "OFF", wants |-> "OFF"]

GateInit ==
  /\ mode = "OFF"
  /\ cached = "NONE"
  /\ visitor = [r \in Requests |-> Away]
  /\ updates = 0

Moves(r, v) == visitor' = [visitor EXCEPT ![r] = v]

\* What the guard does with a state: only a SUPERADMIN passes when it is ON.
Lets(admin, state) == state = "OFF" \/ admin

-----------------------------------------------------------------------------
(* getState and the guard *)

ArriveCachedRenewing(r, admin) ==
  /\ visitor[r].at = "Away"
  /\ cached # "NONE"
  /\ Moves(r, [Away EXCEPT !.at = "Looking", !.admin = admin, !.saw = cached])
  /\ UNCHANGED <<mode, cached, updates>>

\* The state is cached. A request that is refused leaves nothing behind.
ArriveCached(r, admin) ==
  /\ visitor[r].at = "Away"
  /\ cached # "NONE"
  /\ Lets(admin, cached)
  /\ Moves(r, [Away EXCEPT !.at = "Inside", !.admin = admin])
  /\ UNCHANGED <<mode, cached, updates>>

\* It is not, or Redis does not answer: the rows are read.
ArriveMissed(r, admin) ==
  /\ visitor[r].at = "Away"
  /\ Moves(r, [Away EXCEPT !.at = "Looking", !.admin = admin, !.saw = mode])
  /\ UNCHANGED <<mode, cached, updates>>

\* Redis takes the state, or fails and the failure is swallowed.
Caches(state) == cached' \in {state, cached}

Arrive(r, admin) == ArriveCached(r, admin) \/ ArriveMissed(r, admin)

Decide(r) ==
  LET v == visitor[r] IN
  /\ v.at = "Looking"
  /\ Caches(v.saw)
  /\ Moves(r, IF Lets(v.admin, v.saw) THEN [Away EXCEPT !.at = "Inside", !.admin = v.admin] ELSE Away)
  /\ UNCHANGED <<mode, updates>>

\* The route behind the guard takes over.
Enter(r) ==
  /\ visitor[r].at = "Inside"
  /\ Moves(r, Away)
  /\ UNCHANGED <<mode, cached, updates>>

-----------------------------------------------------------------------------
(* updateState *)

BeginSwitch(r, wants) ==
  /\ visitor[r].at = "Inside" /\ visitor[r].admin
  /\ updates < MaxUpdates
  /\ updates' = updates + 1
  /\ Moves(r, [visitor[r] EXCEPT !.at = "Writing", !.saw = mode, !.wants = wants])
  /\ UNCHANGED <<mode, cached>>

\* setValue saves the entity it found, which writes the columns that differ
\* from what was read: nothing, where the state asked for was there already.
CommitSwitch(r) ==
  LET v == visitor[r] IN
  /\ v.at = "Writing"
  /\ mode' = IF v.wants = v.saw THEN mode ELSE v.wants
  /\ Moves(r, [v EXCEPT !.at = "Publishing"])
  /\ UNCHANGED <<cached, updates>>

PublishSwitch(r) ==
  /\ visitor[r].at = "Publishing"
  /\ Caches(visitor[r].wants)
  /\ Moves(r, Away)
  /\ UNCHANGED <<mode, updates>>

-----------------------------------------------------------------------------

\* The time to live of the key runs out.
CacheExpires ==
  /\ cached # "NONE"
  /\ cached' = "NONE"
  /\ UNCHANGED <<mode, visitor, updates>>

\* The process dies under a request.
LoseVisitor(r) ==
  /\ visitor[r].at # "Away"
  /\ Moves(r, Away)
  /\ UNCHANGED <<mode, cached, updates>>

GateNext(r) ==
  \/ \E admin \in BOOLEAN : Arrive(r, admin)
  \/ \E wants \in Mode : BeginSwitch(r, wants)
  \/ Decide(r) \/ CommitSwitch(r) \/ PublishSwitch(r) \/ LoseVisitor(r)

\* A request does not stay between two of its steps for ever, and Redis
\* drops the key when its time is up.
GateFairness ==
  /\ \A r \in Requests : WF_gateVars(Decide(r)) /\ WF_gateVars(CommitSwitch(r))
                         /\ WF_gateVars(PublishSwitch(r))
  /\ WF_gateVars(CacheExpires)

GateTypeOK ==
  /\ mode \in Mode
  /\ cached \in Mode \cup {"NONE"}
  /\ visitor \in [Requests -> Visitor]
  /\ updates \in 0..MaxUpdates

\* Request r will offer the cache a state that the switch has left: it read it,
\* or asked for it, before another update. Where an update asks for what it
\* read, its commit writes nothing.
Outdated(r) ==
  LET v == visitor[r] IN
  \/ v.at = "Looking" /\ v.saw # mode
  \/ v.at = "Publishing" /\ v.wants # mode
  \/ v.at = "Writing" /\ v.wants = v.saw /\ v.wants # mode

\* Between two updates, no further request takes up a state that the switch
\* has left, and such a state comes into the cache only from a request that
\* held it since before, once from each: no reader passes on what it found in
\* the cache (getState, updateState).
NoStateComesBack ==
  [][UNCHANGED <<mode, updates>> =>
       /\ \A r \in Requests : Outdated(r)' => Outdated(r)
       /\ cached' \in {cached, "NONE", mode} \/ \E r \in Requests : Outdated(r) /\ ~Outdated(r)']_gateVars

\* Once nobody switches any more, the cache ends up saying what the database
\* says, or nothing, whatever slow reader or update wrote into it last and
\* however often Redis failed (getState, updateState).
MaintenanceSettles == <>[](cached \in {"NONE", mode})
=============================================================================
